---- MODULE Spec2Model ----
(***************************************************************************)
(* A model of vezda/plot_utils.py: the wave viewer built by Plotter.plot   *)
(* (an Experiment rendered by plotWiggles and plotMap, paged by the key    *)
(* handlers switch_experiments and process_key_waves) and the viewer of    *)
(* singular vectors paged by process_key_vectors.                          *)
(*                                                                         *)
(* Conventions.  A Python None is the record None; a value that may be     *)
(* None is wrapped by Some.  A numpy array is a sequence, so the Python    *)
(* element a[i] is the TLA+ element a[i + 1].  A float is a mantissa and   *)
(* an exponent, and its arithmetic rounds to the nearest float as the      *)
(* machine's does, with a mantissa of MantissaBits bits.  A call that may  *)
(* raise returns a record with a field "raised".                           *)
(***************************************************************************)
EXTENDS Integers, Sequences, FiniteSets, TLC

\* ------------------------------------------------------------------ bounds
\* the largest number of sources of an experiment (frames of its stack)
MaxNs == 3
\* the largest number of receivers of an experiment (traces of a frame)
MaxNr == 2
\* the number of time samples of a trace
Nt == 2
\* the number of bits of a float's mantissa
MantissaBits == 5
\* the largest number of renders of one frame in a row
MaxRenders == 2
\* the largest number of calls of default_params
MaxCalls == 2
\* the largest number of keys bound to one command of the toolkit
MaxKeys == 3

\* ------------------------------------------------------- Python's None
None == [none |-> TRUE]
Some(v) == [none |-> FALSE, val |-> v]

\* ---------------------------------------------------------- arithmetic
Max(S) == CHOOSE m \in S : \A x \in S : x <= m
Min(S) == CHOOSE m \in S : \A x \in S : m <= x
Abs(x) == IF x < 0 THEN -x ELSE x
Range(f) == {f[i] : i \in DOMAIN f}

\* "%0.2f" of a coordinate kept in hundredths
Fmt2(v) ==
    (IF v < 0 THEN "-" ELSE "") \o ToString(Abs(v) \div 100) \o "." \o
    (IF Abs(v) % 100 < 10 THEN "0" ELSE "") \o ToString(Abs(v) % 100)

\* ------------------------------------------------------------ get_cmap_colors
\* the (positive, negative) fill colours of a wiggle colormap; a name the
\* function does not know falls off its end and gives None
get_cmap_fills(cmap_string, mode) ==
    IF cmap_string = "native" THEN Some(<<"m", "c">>)
    ELSE IF cmap_string = "grays"
         THEN (IF mode = "light" THEN Some(<<"black", "None">>)
                                 ELSE Some(<<"whitesmoke", "None">>))
    ELSE IF cmap_string = "seismic" THEN Some(<<"blue", "red">>)
    ELSE None

\* the colormap object of a wiggle colormap (fills=False)
get_cmap_colors(cmap_string, mode) ==
    IF cmap_string = "native"
    THEN (IF mode = "light" THEN Some("vz_cwm") ELSE Some("vz_cbm"))
    ELSE IF cmap_string = "grays" THEN Some("grays")
    ELSE IF cmap_string = "seismic" THEN Some("seismic")
    ELSE None

\* ------------------------------------------------------------ default_params
\* default_params with the dark view mode
default_params_dark ==
    [pltformat |-> "pdf", view_mode |-> "dark",
     isolevel |-> <<7, 10>>,
     xlabel |-> "", ylabel |-> "", zlabel |-> "",
     xu |-> "", yu |-> "", zu |-> "",
     image_colormap |-> "magma", wiggle_colormap |-> "grays",
     colorbar |-> FALSE, shading |-> "flat",
     vmin |-> <<0, 1>>, vmax |-> <<1, 1>>, levels |-> 100,
     invert_xaxis |-> FALSE, invert_yaxis |-> FALSE, invert_zaxis |-> FALSE,
     show_scatterer |-> FALSE, show_sources |-> TRUE, show_receivers |-> TRUE,
     pclip |-> <<1, 1>>, tu |-> "", au |-> "",
     data_title |-> "Data", impulse_title |-> "Impulse Response",
     fu |-> "", fmin |-> 0, fmax |-> [none |-> TRUE],
     freq_title |-> "Mean Amplitude Spectrum", freq_ylabel |-> "Amplitude"]

\* the dictionary a call of default_params() builds and returns; decimal
\* literals are kept as <<numerator, denominator>>
default_params ==
    [pltformat |-> "pdf", view_mode |-> "light",
     isolevel |-> <<7, 10>>,
     xlabel |-> "", ylabel |-> "", zlabel |-> "",
     xu |-> "", yu |-> "", zu |-> "",
     image_colormap |-> "magma", wiggle_colormap |-> "grays",
     colorbar |-> FALSE, shading |-> "flat",
     vmin |-> <<0, 1>>, vmax |-> <<1, 1>>, levels |-> 100,
     invert_xaxis |-> FALSE, invert_yaxis |-> FALSE, invert_zaxis |-> FALSE,
     show_scatterer |-> FALSE, show_sources |-> TRUE, show_receivers |-> TRUE,
     pclip |-> <<1, 1>>, tu |-> "", au |-> "",
     data_title |-> "Data", impulse_title |-> "Impulse Response",
     fu |-> "", fmin |-> 0, fmax |-> None,
     freq_title |-> "Mean Amplitude Spectrum", freq_ylabel |-> "Amplitude"]

\* ------------------------------------------------------------------ set_ylabel
\* set_ylabel naming the receiver whatever the flag
set_ylabel_receiver(N, coordinates, id_number, flag, plotParams) ==
    [raised |-> FALSE,
     val |-> IF N # 1 \/ coordinates.none THEN "Receiver"
             ELSE "Amplitude [Receiver " \o ToString(id_number) \o " @ ("
                  \o Fmt2(coordinates.val[1][1]) \o " " \o plotParams.xu \o ", "
                  \o Fmt2(coordinates.val[1][2]) \o " " \o plotParams.yu \o ")]"]

\* the y-axis label of a wiggle plot of N traces; coordinates is None or
\* Some(rows), and only row 0 is read
set_ylabel(N, coordinates, id_number, flag, plotParams) ==
    LET known == flag \in {"data", "impulse", "left", "right"}
        ylabel == IF flag = "right" THEN "Source" ELSE "Receiver"
        id == ToString(id_number)
        au == plotParams.au
        xu == plotParams.xu
        yu == plotParams.yu
        zu == plotParams.zu
        c == coordinates.val[1]
        amp == IF au # "" THEN "Amplitude (" \o au \o ") [" ELSE "Amplitude ["
        who == ylabel \o " " \o id
    IN  IF ~known THEN [raised |-> TRUE, val |-> ""]
        ELSE IF N # 1 THEN [raised |-> FALSE, val |-> ylabel]
        ELSE IF coordinates.none
             THEN [raised |-> FALSE, val |-> amp \o who \o "]"]
        ELSE IF Len(c) = 2
             THEN IF xu # "" /\ yu # ""
                  THEN [raised |-> FALSE,
                        val |-> amp \o who \o " @ (" \o Fmt2(c[1]) \o " " \o xu
                                \o ", " \o Fmt2(c[2]) \o " " \o yu \o ")]"]
                  ELSE IF xu = "" /\ yu = ""
                  THEN [raised |-> FALSE,
                        val |-> amp \o who \o " @ (" \o Fmt2(c[1])
                                \o ", " \o Fmt2(c[2]) \o ")]"]
                  ELSE [raised |-> FALSE, val |-> ylabel]
        ELSE IF Len(c) = 3
             THEN IF xu # "" /\ yu # "" /\ zu # ""
                  THEN [raised |-> FALSE,
                        val |-> amp \o who \o " @ (" \o Fmt2(c[1]) \o " " \o xu
                                \o ", " \o Fmt2(c[2]) \o " " \o yu
                                \o ", " \o Fmt2(c[3]) \o " " \o zu \o ")]"]
                  ELSE IF xu = "" /\ yu = "" /\ zu = ""
                  THEN [raised |-> FALSE,
                        val |-> amp \o who \o " @ (" \o Fmt2(c[1])
                                \o ", " \o Fmt2(c[2])
                                \o ", " \o Fmt2(c[3]) \o ")]"]
                  ELSE [raised |-> FALSE, val |-> ylabel]
        ELSE [raised |-> FALSE, val |-> ylabel]

\* ------------------------------------------------------------------ wave_title
\* the title of the frame of source `index` (0-based); raises when an index
\* is out of range, when an 'impulse' experiment has no source points, and
\* when no branch assigns the title
wave_title(index, sourceNumbers, sourcePoints, flag, plotParams) ==
    LET xu == plotParams.xu
        yu == plotParams.yu
        zu == plotParams.zu
        fail == [raised |-> TRUE, val |-> ""]
        ok(t) == [raised |-> FALSE, val |-> t]
        inNumbers == index + 1 \in DOMAIN sourceNumbers
        inPoints == index + 1 \in DOMAIN sourcePoints.val
        p == sourcePoints.val[index + 1]
        dim == Len(sourcePoints.val[1])
        xy == Fmt2(p[1]) \o ", " \o Fmt2(p[2])
        xyu == Fmt2(p[1]) \o " " \o xu \o ", " \o Fmt2(p[2]) \o " " \o yu
        xyz == xy \o ", " \o Fmt2(p[3])
        xyzu == xyu \o ", " \o Fmt2(p[3]) \o " " \o zu
    IN  IF flag = "data"
        THEN LET head == plotParams.data_title
                 num == ToString(sourceNumbers[index + 1])
             IN  IF sourcePoints.none
                 THEN IF inNumbers
                      THEN ok(head \o " [Record " \o num \o "/"
                              \o ToString(Len(sourceNumbers)) \o "]")
                      ELSE fail
                 ELSE IF dim = 2
                 THEN IF ~inNumbers \/ ~inPoints THEN fail
                      ELSE IF xu # "" /\ yu # ""
                      THEN ok(head \o " [Source " \o num \o " @ (" \o xyu \o ")]")
                      ELSE ok(head \o " [Source " \o num \o " @ (" \o xy \o ")]")
                 ELSE IF dim = 3
                 THEN IF ~inNumbers \/ ~inPoints THEN fail
                      ELSE IF xu # "" /\ yu # "" /\ zu # ""
                      THEN ok(head \o " [Source " \o num \o " @ (" \o xyzu \o ")]")
                      ELSE ok(head \o " [Source " \o num \o " @ (" \o xyz \o ")]")
                 ELSE fail
        ELSE LET head == plotParams.impulse_title
             IN  IF sourcePoints.none THEN fail
                 ELSE IF dim = 2
                 THEN IF xu # "" /\ yu # ""
                      THEN (IF inPoints THEN ok(head \o " [$\\bf{z}$ @ (" \o xyu \o ")]")
                                        ELSE fail)
                      ELSE IF xu = "" /\ yu = ""
                      THEN (IF inPoints THEN ok(head \o " [$\\bf{z}$ @ (" \o xy \o ")]")
                                        ELSE fail)
                      ELSE fail
                 ELSE IF dim = 3
                 THEN IF xu # "" /\ yu # "" /\ zu # ""
                      THEN (IF inPoints THEN ok(head \o " [$\\bf{z}$ @ (" \o xyzu \o ")]")
                                        ELSE fail)
                      ELSE IF xu = "" /\ yu = "" /\ zu = ""
                      THEN (IF inPoints THEN ok(head \o " [$\\bf{z}$ @ (" \o xyz \o ")]")
                                        ELSE fail)
                      ELSE fail
                 ELSE fail

\* ------------------------------------------------------------- float arrays
\* A float is [m, e], the number m * 2^e with a mantissa of MantissaBits
\* bits, 2^(MantissaBits - 1) <= |m| < 2^MantissaBits (or 0 * 2^0), so that
\* equal numbers are equal records.  Every operation rounds its exact result
\* to the nearest float, ties to the even mantissa, as IEEE arithmetic does;
\* exponents are not limited.
RECURSIVE Widen(_, _)
Widen(n, e) ==
    IF n = 0 THEN [m |-> 0, e |-> 0]
    ELSE IF n < 2^(MantissaBits - 1) THEN Widen(2 * n, e - 1)
    ELSE [m |-> n, e |-> e]

\* the float nearest to the number between n * 2^e and (n + 1) * 2^e, for
\* n >= 0: n * 2^e itself unless `more`, which says that the number is above
\* it (then n has more than MantissaBits bits)
RECURSIVE RoundTo(_, _, _)
RoundTo(n, e, more) ==
    IF n < 2^MantissaBits THEN Widen(n, e)
    ELSE IF n \div 2 < 2^MantissaBits
    THEN IF n % 2 = 1 /\ (more \/ (n \div 2) % 2 = 1)
         THEN IF n \div 2 + 1 = 2^MantissaBits
              THEN [m |-> 2^(MantissaBits - 1), e |-> e + 2]
              ELSE [m |-> n \div 2 + 1, e |-> e + 1]
         ELSE [m |-> n \div 2, e |-> e + 1]
    ELSE RoundTo(n \div 2, e + 1, more \/ n % 2 = 1)

FNeg(a) == [m |-> -a.m, e |-> a.e]
FAbs(a) == [m |-> Abs(a.m), e |-> a.e]

\* the float of a number n * 2^e of either sign
Signed(n, e, more) ==
    IF n < 0 THEN FNeg(RoundTo(-n, e, more)) ELSE RoundTo(n, e, more)

\* the float of an integer
FromInt(i) == Signed(i, 0, FALSE)

FLeq(a, b) ==
    IF a.e <= b.e THEN a.m <= b.m * 2^(b.e - a.e)
                  ELSE a.m * 2^(a.e - b.e) <= b.m

FMax(S) == CHOOSE x \in S : \A y \in S : FLeq(y, x)
FMin(S) == CHOOSE x \in S : \A y \in S : FLeq(x, y)

\* a - b and a * b, rounded
FSub(a, b) ==
    IF a.e <= b.e THEN Signed(a.m - b.m * 2^(b.e - a.e), a.e, FALSE)
                  ELSE Signed(a.m * 2^(a.e - b.e) - b.m, b.e, FALSE)

FMul(a, b) == Signed(a.m * b.m, a.e + b.e, FALSE)

\* n * 2^e / d for mantissas n and d
Quotient(n, d, e) ==
    RoundTo((n * 2^(MantissaBits + 1)) \div d, e - (MantissaBits + 1),
            (n * 2^(MantissaBits + 1)) % d # 0)

\* a / b; by zero it is nan or an infinity, as numpy's division is
FDiv(a, b) ==
    IF b.m = 0
    THEN (IF a.m = 0 THEN [m |-> 0, e |-> 0, nan |-> TRUE]
                     ELSE [m |-> IF a.m < 0 THEN -1 ELSE 1, e |-> 0, inf |-> TRUE])
    ELSE IF a.m = 0 THEN a
    ELSE IF (a.m < 0) # (b.m < 0)
    THEN FNeg(Quotient(Abs(a.m), Abs(b.m), a.e - b.e))
    ELSE Quotient(Abs(a.m), Abs(b.m), a.e - b.e)

\* the float of the decimal literal num/den
Float(q) == FDiv(FromInt(q[1]), FromInt(q[2]))

\* An array of floats X = [tr]: sample t of trace n is tr[n][t]
Samples(X) == UNION {Range(X.tr[n]) : n \in DOMAIN X.tr}

\* np.ptp(X, axis=1) then np.max: the largest peak-to-peak range of a trace
MaxPtp(X) ==
    FMax({FSub(FMax(Range(X.tr[n])), FMin(Range(X.tr[n]))) : n \in DOMAIN X.tr})

\* np.max(np.abs(X))
MaxAbs(X) == FMax({FAbs(v) : v \in Samples(X)})

\* X /= scaleFactor, for scaleFactor not 0
DivideBy(X, scaleFactor) ==
    [tr |-> [n \in DOMAIN X.tr |->
               [t \in DOMAIN X.tr[n] |-> FDiv(X.tr[n][t], scaleFactor)]]]

\* --------------------------------------------------------------------- axes
\* ax.clear() that clears nothing
clear_kept(ax) == ax

\* ax.clear(): the title, labels, ticks and artists go; the attributes the
\* callers attached (source_index) stay
clear(ax) ==
    [ax EXCEPT !.title = "", !.xlabel = "", !.ylabel = "",
               !.zlabel = "", !.yticks = None, !.xlim = None,
               !.grid = TRUE, !.aspect = "auto",
               !.xinv = FALSE, !.yinv = FALSE, !.zinv = FALSE,
               !.artists = <<>>]

\* the line of trace n and its two fills (positive and negative lobes),
\* drawn around the baseline y0
Wiggle(X, n, y0, fills) ==
    << [kind |-> "line", y0 |-> y0, y |-> X.tr[n]],
       [kind |-> "fill", y0 |-> y0, y |-> X.tr[n],
        where |-> "above", color |-> fills[1]],
       [kind |-> "fill", y0 |-> y0, y |-> X.tr[n],
        where |-> "below", color |-> fills[2]] >>

RECURSIVE Wiggles(_, _, _, _)
Wiggles(X, interval, fills, n) ==
    IF n = 0 THEN <<>>
    ELSE Wiggles(X, interval, fills, n - 1) \o Wiggle(X, n, interval[n], fills)

\* a threshold one trace too high
StackedMax_late == 70 + 1

\* the trace counts at which plotWiggles changes its drawing mode
TickLabelMax == 18
StackedMax == 70

\* ---------------------------------------------------------------- plotWiggles
\* the title, the time label and the time limits plotWiggles ends with
Titled(ax, title, xvals, tu) ==
    [ax EXCEPT !.title = title,
               !.xlabel = IF tu # "" THEN "Time (" \o tu \o ")" ELSE "Time",
               !.xlim = Some(<<xvals[1], xvals[Len(xvals)]>>)]

\* X /= scaleFactor whatever the scale factor
Rescaled_unguarded(X, scaleFactor) == DivideBy(X, scaleFactor)

\* if scaleFactor != 0: X /= scaleFactor
Rescaled(X, scaleFactor) ==
    IF scaleFactor.m # 0 THEN DivideBy(X, scaleFactor) ELSE X

\* the drawing modes of plotWiggles on the cleared axes ax0, by the number of
\* traces N: X is the frame as passed, Xs the frame rescaled in place by its
\* largest peak-to-peak range, ylabel and fills what set_ylabel and
\* get_cmap_colors(fills=True) returned
WiggleModes(ax0, X, Xs, ylabel, fills, wiggle_cmap, xvals, interval, title, plotParams) ==
    IF ylabel.raised \/ ax0.style.none
    THEN [raised |-> TRUE, ax |-> ax0, X |-> X]
    ELSE IF Len(X.tr) > 1 /\ Len(X.tr) <= TickLabelMax
    THEN IF fills.none
         THEN [raised |-> TRUE, X |-> X,
               ax |-> [ax0 EXCEPT !.ylabel = ylabel.val,
                                  !.yticks = Some(interval)]]
         ELSE [raised |-> FALSE, X |-> Xs,
               ax |-> Titled([ax0 EXCEPT
                                !.ylabel = ylabel.val,
                                !.yticks = Some(interval),
                                !.artists = @ \o Wiggles(Xs, interval, fills.val,
                                                        Len(X.tr))],
                             title, xvals, plotParams.tu)]
    ELSE IF Len(X.tr) > TickLabelMax /\ Len(X.tr) <= StackedMax
    THEN IF fills.none
         THEN [raised |-> TRUE, X |-> X,
               ax |-> [ax0 EXCEPT !.ylabel = ylabel.val]]
         ELSE [raised |-> FALSE, X |-> Xs,
               ax |-> Titled([ax0 EXCEPT
                                !.ylabel = ylabel.val,
                                !.artists = @ \o Wiggles(Xs, interval, fills.val,
                                                        Len(X.tr))],
                             title, xvals, plotParams.tu)]
    ELSE IF Len(X.tr) > 1
    THEN [raised |-> FALSE, X |-> X,
          ax |-> Titled([ax0 EXCEPT
                           !.ylabel = ylabel.val,
                           !.artists = @ \o
                             << [kind |-> "mesh", y |-> X, cmap |-> wiggle_cmap,
                                 vlim |-> FMul(MaxAbs(X),
                                               Float(plotParams.pclip))] >>],
                        title, xvals, plotParams.tu)]
    ELSE IF fills.none
         THEN [raised |-> TRUE, X |-> X,
               ax |-> [ax0 EXCEPT !.ylabel = ylabel.val]]
         ELSE [raised |-> FALSE, X |-> X,
               ax |-> Titled([ax0 EXCEPT
                                !.ylabel = ylabel.val,
                                !.artists = @ \o Wiggle(X, 1, 0, fills.val)],
                             title, xvals, plotParams.tu)]

\* plotWiggles rescaling before it looks at the number of traces
plotWiggles_scaled(ax, X, xvals, interval, coordinates, title, flag, plotParams) ==
    WiggleModes(clear(ax), Rescaled(X, MaxPtp(X)), Rescaled(X, MaxPtp(X)),
                set_ylabel(Len(X.tr), coordinates, interval[1], flag, plotParams),
                get_cmap_fills(plotParams.wiggle_colormap, plotParams.view_mode),
                get_cmap_colors(plotParams.wiggle_colormap, plotParams.view_mode),
                xvals, interval, title, plotParams)

\* draws frame X (N traces) on ax; X is a view of the caller's array, so the
\* X returned is what the caller's array holds afterwards
plotWiggles(ax, X, xvals, interval, coordinates, title, flag, plotParams) ==
    WiggleModes(clear(ax), X, Rescaled(X, MaxPtp(X)),
                set_ylabel(Len(X.tr), coordinates, interval[1], flag, plotParams),
                get_cmap_fills(plotParams.wiggle_colormap, plotParams.view_mode),
                get_cmap_colors(plotParams.wiggle_colormap, plotParams.view_mode),
                xvals, interval, title, plotParams)

\* ------------------------------------------------------------ plotFreqVectors
\* the title and the frequency label plotFreqVectors begins with
FreqTitled(ax, title, fu) ==
    [ax EXCEPT !.title = title,
               !.xlabel = IF fu # "" THEN "Frequency (" \o fu \o ")"
                                     ELSE "Frequency"]

\* the drawing modes of plotFreqVectors on the cleared and titled axes ax0:
\* a mesh of the volume rescaled in place by its largest magnitude, or the
\* stem plot of a single trace
FreqModes(ax0, volume, scaled, ylabel, wiggle_cmap) ==
    IF ax0.style.none THEN [raised |-> TRUE, ax |-> clear(ax0), X |-> volume]
    ELSE IF ylabel.raised THEN [raised |-> TRUE, ax |-> ax0, X |-> volume]
    ELSE IF Len(volume.tr) > 1
    THEN [raised |-> FALSE, X |-> scaled,
          ax |-> [ax0 EXCEPT !.ylabel = ylabel.val,
                             !.artists = @ \o << [kind |-> "mesh", y |-> scaled,
                                             cmap |-> wiggle_cmap,
                                             vlim |-> <<1, 1>>] >>]]
    ELSE [raised |-> FALSE, X |-> volume,
          ax |-> [ax0 EXCEPT !.ylabel = ylabel.val,
                             !.artists = @ \o << [kind |-> "stem",
                                             y |-> volume.tr[1],
                                             linefmt |-> ax0.style.val.linecolor,
                                             markerfmt |-> "mo"] >>]]

\* draws the frame `volume` (N traces over frequency) on ax; volume is a view
\* of the caller's array, so the X returned is what that array holds
\* afterwards
plotFreqVectors(ax, volume, xvals, interval, coordinates, title, flag, plotParams) ==
    FreqModes(FreqTitled(clear(ax), title, plotParams.fu), volume,
              Rescaled(volume, MaxAbs(volume)),
              set_ylabel(Len(volume.tr), coordinates, interval[1], flag,
                         plotParams),
              get_cmap_colors(plotParams.wiggle_colormap, plotParams.view_mode))

\* ------------------------------------------------------------------ setFigure
\* the colours setFigure attaches to every axes it creates, by view mode
\* (an axes of any other mode gets none, and a later read of one raises)
StyleOf(mode) ==
    IF mode = "light"
    THEN Some([linecolor |-> "slategray", labelcolor |-> "#4c4c4c",
               titlecolor |-> "black", receivercolor |-> "black",
               sourcecolor |-> "black", activesourcecolor |-> "darkcyan",
               inactivesourcecolor |-> "darkgray", scatterercolor |-> "darkgray",
               surfacecolor |-> "c"])
    ELSE IF mode = "dark"
    THEN Some([linecolor |-> "silver", labelcolor |-> "555555",
               titlecolor |-> "555555", receivercolor |-> "darkgray",
               sourcecolor |-> "darkgray", activesourcecolor |-> "c",
               inactivesourcecolor |-> "dimgray", scatterercolor |-> "lightgray",
               surfacecolor |-> "c"])
    ELSE None

\* a fresh axes of the figure
NewAxes(mode) ==
    [style |-> StyleOf(mode),
     title |-> "", xlabel |-> "", ylabel |-> "", zlabel |-> "",
     yticks |-> None, xlim |-> None, grid |-> TRUE, aspect |-> "auto",
     xinv |-> FALSE, yinv |-> FALSE, zinv |-> FALSE, artists |-> <<>>]

\* ------------------------------------------------------------------- plotMap
\* np.delete taking the first row whatever the index
Delete_first(a, index) == [i \in 1..(Len(a) - 1) |-> a[i + 1]]

\* np.delete(a, index, axis=0) for an index in range
Delete(a, index) ==
    [i \in 1..(Len(a) - 1) |-> IF i <= index THEN a[i] ELSE a[i + 1]]

Points(marker, pts, color, size) ==
    [kind |-> "points", marker |-> marker, pts |-> pts, color |-> color,
     size |-> size]

\* label + ' (unit)' when the unit is given
WithUnit(label, unit) ==
    IF unit # "" THEN label \o " (" \o unit \o ")" ELSE label

\* the receiver markers, when shown
MapReceivers(st, known, receiverPoints, plotParams) ==
    IF known /\ plotParams.show_receivers
    THEN <<Points("v", receiverPoints, st.receivercolor, 6)>>
    ELSE <<>>

\* the scatterer boundary, when given and shown
MapScatterer(st, known, scatterer, plotParams) ==
    IF known /\ ~scatterer.none /\ plotParams.show_scatterer
    THEN <<Points("--", scatterer.val, st.scatterercolor, 6)>>
    ELSE <<>>

\* the source markers: all alike without an index, else the others in the
\* inactive colour and then the one at index in the active colour
MapSources(st, known, index, sourcePoints, flag, plotParams) ==
    IF ~known \/ sourcePoints.none THEN <<>>
    ELSE IF index.none
    THEN IF flag = "data" /\ plotParams.show_sources
         THEN <<Points("*", sourcePoints.val, st.sourcecolor, 6)>>
         ELSE IF flag = "impulse"
         THEN <<Points(".", sourcePoints.val, st.sourcecolor, 6)>>
         ELSE <<>>
    ELSE IF flag = "data" /\ plotParams.show_sources
         THEN <<Points("*", Delete(sourcePoints.val, index.val),
                       st.inactivesourcecolor, 6),
                Points("*", <<sourcePoints.val[index.val + 1]>>,
                       st.activesourcecolor, 12)>>
         ELSE IF flag = "impulse"
         THEN <<Points(".", Delete(sourcePoints.val, index.val),
                       st.inactivesourcecolor, 6),
                Points(".", <<sourcePoints.val[index.val + 1]>>,
                       st.activesourcecolor, 12)>>
         ELSE <<>>

\* what plotMap draws on axc (the axes, cleared and titled when an index is
\* given), and the labels and inversions it ends with
MapDrawn(axc, dim, artists, plotParams) ==
    [axc EXCEPT
       !.artists = @ \o artists,
       !.zlabel = IF dim = 3 THEN WithUnit(plotParams.zlabel, plotParams.zu)
                             ELSE @,
       !.zinv = IF dim = 3 /\ plotParams.invert_zaxis THEN ~@ ELSE @,
       !.grid = FALSE, !.aspect = "equal",
       !.xlabel = WithUnit(plotParams.xlabel, plotParams.xu),
       !.ylabel = WithUnit(plotParams.ylabel, plotParams.yu),
       !.xinv = IF plotParams.invert_xaxis THEN ~@ ELSE @,
       !.yinv = IF plotParams.invert_yaxis THEN ~@ ELSE @]

MapOn(axc, dim, index, receiverPoints, sourcePoints, scatterer, flag, plotParams) ==
    IF axc.style.none THEN [raised |-> TRUE, ax |-> axc]
    ELSE IF ~index.none /\ ~sourcePoints.none
            /\ index.val + 1 \notin DOMAIN sourcePoints.val
    THEN [raised |-> TRUE, ax |-> axc]
    ELSE [raised |-> FALSE,
          ax |-> MapDrawn(axc, dim,
                          MapReceivers(axc.style.val, dim \in {2, 3},
                                       receiverPoints, plotParams)
                          \o MapSources(axc.style.val, dim \in {2, 3}, index,
                                        sourcePoints, flag, plotParams)
                          \o MapScatterer(axc.style.val, dim \in {2, 3},
                                          scatterer, plotParams),
                          plotParams)]

\* the map of receivers, sources and scatterer; index is None (all sources
\* alike, drawn onto what the axes holds) or Some(i) (axes cleared, source i
\* drawn as the active one)
plotMap(ax, index, receiverPoints, sourcePoints, scatterer, flag, plotParams) ==
    MapOn(IF index.none THEN ax
          ELSE IF ax.style.none THEN clear(ax)
          ELSE [clear(ax) EXCEPT !.title = "Map"],
          Len(receiverPoints[1]), index, receiverPoints, sourcePoints,
          scatterer, flag, plotParams)

\* ------------------------------------------------------------------ Experiment
Experiment(data, time, receiverNumbers, receiverPoints, sourceNumbers, sourcePoints, wiggleType) ==
    [none |-> FALSE, data |-> data, time |-> time,
     receiverNumbers |-> receiverNumbers, receiverPoints |-> receiverPoints,
     sourceNumbers |-> sourceNumbers, sourcePoints |-> sourcePoints,
     wiggleType |-> wiggleType]

\* what a renderer of a wave frame leaves: the axes as plotWiggles left it
\* and, in the experiment's stack, what plotWiggles left in the view
Rendered(experiment, i, w) ==
    [raised |-> w.raised, ax |-> w.ax,
     experiment |-> [experiment EXCEPT !.data[i + 1] = w.X]]

\* plotWiggles on the view data[:, :, ax.source_index], under a title
\* (an IndexError when the stack has no such frame)
RenderTitled(ax, experiment, plotParams, title) ==
    IF title.raised \/ ax.source_index + 1 \notin DOMAIN experiment.data
    THEN [raised |-> TRUE, ax |-> ax, experiment |-> experiment]
    ELSE Rendered(experiment, ax.source_index,
                  plotWiggles(ax, experiment.data[ax.source_index + 1],
                              experiment.time, experiment.receiverNumbers,
                              Some(experiment.receiverPoints), title.val,
                              experiment.wiggleType, plotParams))

\* The lines every renderer of a wave frame repeats: the title of the source
\* at ax.source_index, then plotWiggles on that source's frame (reading an
\* attribute of None raises)
RenderWave(ax, experiment, plotParams) ==
    IF experiment.none
    THEN [raised |-> TRUE, ax |-> ax, experiment |-> experiment]
    ELSE
    RenderTitled(ax, experiment, plotParams,
                 wave_title(ax.source_index, experiment.sourceNumbers,
                            experiment.sourcePoints, experiment.wiggleType,
                            plotParams))

\* fig.canvas.draw(): the window shows what the axes hold now
Draw(fig) == [fig EXCEPT !.canvas = fig.axes]

\* The statements of a handler in order: the wiggle panel is rendered (w),
\* then, with a map panel, the map (m), then the canvas is drawn.  A raise
\* leaves what was assigned before it and skips the rest.
Panels(plotter, index, fig, w, m, show_map) ==
    LET after == [plotter EXCEPT !.index = index,
                                 !.experiments[index + 1] = w.experiment]
        fig1 == [fig EXCEPT !.axes[1] = w.ax]
        fig2 == [fig EXCEPT !.axes[1] = w.ax, !.axes[2] = m.ax]
    IN  IF w.raised THEN [raised |-> TRUE, plotter |-> after, fig |-> fig1]
        ELSE IF ~show_map
        THEN [raised |-> FALSE, plotter |-> after, fig |-> Draw(fig1)]
        ELSE IF m.raised THEN [raised |-> TRUE, plotter |-> after, fig |-> fig2]
        ELSE [raised |-> FALSE, plotter |-> after, fig |-> Draw(fig2)]

\* the figure Experiment.plot returns, from its wiggle panel and its map
FirstFigure(w, m, show_map) ==
    [raised |-> w.raised \/ (show_map /\ m.raised),
     experiment |-> w.experiment,
     fig |-> IF show_map THEN [axes |-> <<w.ax, m.ax>>, canvas |-> <<w.ax, m.ax>>]
                         ELSE [axes |-> <<w.ax>>, canvas |-> <<w.ax>>]]

\* Experiment.plot starting at the first source
ExperimentPlot_first(self, scatterer, plotParams, show_map) ==
    FirstFigure(
        RenderWave([source_index |-> 0] @@ NewAxes(plotParams.view_mode),
                   self, plotParams),
        plotMap([source_index |-> 0] @@ NewAxes(plotParams.view_mode),
                Some(0), self.receiverPoints,
                self.sourcePoints, scatterer, self.wiggleType, plotParams),
        show_map)

\* Experiment.plot: the figure with the middle source's frame (and the map,
\* whose cursor is set to the wiggle panel's)
ExperimentPlot(self, scatterer, plotParams, show_map) ==
    FirstFigure(
        RenderWave([source_index |-> Len(self.sourceNumbers) \div 2]
                       @@ NewAxes(plotParams.view_mode),
                   self, plotParams),
        plotMap([source_index |-> Len(self.sourceNumbers) \div 2]
                    @@ NewAxes(plotParams.view_mode),
                Some(Len(self.sourceNumbers) \div 2), self.receiverPoints,
                self.sourcePoints, scatterer, self.wiggleType, plotParams),
        show_map)

\* -------------------------------------------------------------------- Plotter
Plotted(reciprocal, e) ==
    [raised |-> e.raised,
     plotter |-> [experiments |-> <<e.experiment, reciprocal>>, index |-> 0],
     fig |-> [callbacks |-> <<"switch_experiments", "process_key_waves">>,
              suptitle |-> ""]
             @@ e.fig]

\* Plotter(original, reciprocal).plot(...): the original experiment is shown
\* and the two key handlers are connected, in this order
PlotterPlot(original, reciprocal, scatterer, plotParams, show_map) ==
    Plotted(reciprocal, ExperimentPlot(original, scatterer, plotParams, show_map))

\* ---------------------------------------------------------------- navigation
\* next_wave stepping without the wrap at the last source
next_wave_unwrapped(ax, experiment, plotParams) ==
    RenderWave([ax EXCEPT !.source_index = ax.source_index + 1],
               experiment, plotParams)

\* next_wave wrapping one source too late
next_wave_late(ax, experiment, plotParams) ==
    RenderWave([ax EXCEPT !.source_index =
                    (ax.source_index + 1) % (Len(experiment.sourceNumbers) + 1)],
               experiment, plotParams)

next_wave(ax, experiment, plotParams) ==
    IF experiment.none
    THEN [raised |-> TRUE, ax |-> ax, experiment |-> experiment]
    ELSE
    RenderWave([ax EXCEPT !.source_index =
                    (ax.source_index + 1) % Len(experiment.sourceNumbers)],
               experiment, plotParams)

\* previous_wave stopping at the first source instead of wrapping
previous_wave_clamped(ax, experiment, plotParams) ==
    RenderWave([ax EXCEPT !.source_index = Max({ax.source_index - 1, 0})],
               experiment, plotParams)

previous_wave(ax, experiment, plotParams) ==
    IF experiment.none
    THEN [raised |-> TRUE, ax |-> ax, experiment |-> experiment]
    ELSE
    RenderWave([ax EXCEPT !.source_index =
                    (ax.source_index - 1) % Len(experiment.sourceNumbers)],
               experiment, plotParams)

\* plotMap at the cursor of the axes
MapAtCursor(ax, receiverPoints, sourcePoints, scatterer, flag, plotParams) ==
    plotMap(ax, Some(ax.source_index), receiverPoints, sourcePoints, scatterer,
            flag, plotParams)

\* next_map redrawing the map where it is
next_map_still(ax, receiverPoints, sourcePoints, scatterer, flag, plotParams) ==
    IF sourcePoints.none THEN [raised |-> FALSE, ax |-> ax]
    ELSE MapAtCursor(ax, receiverPoints, sourcePoints, scatterer, flag,
                     plotParams)

\* without source points the map keeps its cursor and its drawing
next_map(ax, receiverPoints, sourcePoints, scatterer, flag, plotParams) ==
    IF sourcePoints.none THEN [raised |-> FALSE, ax |-> ax]
    ELSE MapAtCursor([ax EXCEPT !.source_index =
                         (ax.source_index + 1) % Len(sourcePoints.val)],
                     receiverPoints, sourcePoints, scatterer, flag, plotParams)

previous_map(ax, receiverPoints, sourcePoints, scatterer, flag, plotParams) ==
    IF sourcePoints.none THEN [raised |-> FALSE, ax |-> ax]
    ELSE MapAtCursor([ax EXCEPT !.source_index =
                         (ax.source_index - 1) % Len(sourcePoints.val)],
                     receiverPoints, sourcePoints, scatterer, flag, plotParams)

\* --------------------------------------------------------------- key handlers
\* switch_experiments answering only a capital 'R'
Selected_capital(event, plotter) ==
    IF event.key = "R"
    THEN (plotter.index + 1) % (IF plotter.experiments[2].none THEN 1 ELSE 2)
    ELSE plotter.index

\* switch_experiments switching on every key that does not page
Selected_on_any(event, plotter) ==
    IF event.key \notin {"left", "right", "up", "down"}
    THEN (plotter.index + 1) % (IF plotter.experiments[2].none THEN 1 ELSE 2)
    ELSE plotter.index

\* switch_experiments taking the number of experiments for two
Selected_of_two(event, plotter) ==
    IF event.key = "r" THEN (plotter.index + 1) % 2 ELSE plotter.index

\* the experiment index switch_experiments selects: 'r' moves to the other
\* experiment when there is one
Selected(event, plotter) ==
    IF event.key = "r"
    THEN (plotter.index + 1) % (IF plotter.experiments[2].none THEN 1 ELSE 2)
    ELSE plotter.index

\* re-renders experiment `index` at the axes' cursors
SwitchTo(index, plotter, fig, plotParams, scatterer, show_map) ==
    Panels(plotter, index, fig,
           RenderWave(fig.axes[1], plotter.experiments[index + 1], plotParams),
           MapAtCursor(fig.axes[2],
                       plotter.experiments[index + 1].receiverPoints,
                       plotter.experiments[index + 1].sourcePoints, scatterer,
                       plotter.experiments[index + 1].wiggleType, plotParams),
           show_map)

\* switch_experiments: on every key, the experiment selected (after an 'r',
\* the other one) is rendered at the axes' cursors
switch_experiments(event, plotter, fig, plotParams, scatterer, show_map) ==
    SwitchTo(Selected(event, plotter), plotter, fig, plotParams, scatterer,
             show_map)

PageBack(experiment, plotter, fig, plotParams, scatterer, show_map) ==
    Panels(plotter, plotter.index, fig,
           previous_wave(fig.axes[1], experiment, plotParams),
           previous_map(fig.axes[2], experiment.receiverPoints,
                        experiment.sourcePoints, scatterer,
                        experiment.wiggleType, plotParams),
           show_map)

PageOn(experiment, plotter, fig, plotParams, scatterer, show_map) ==
    Panels(plotter, plotter.index, fig,
           next_wave(fig.axes[1], experiment, plotParams),
           next_map(fig.axes[2], experiment.receiverPoints,
                    experiment.sourcePoints, scatterer,
                    experiment.wiggleType, plotParams),
           show_map)

\* process_key_waves paging on at every key that does not page back
process_key_waves_any(event, plotter, fig, plotParams, scatterer, show_map) ==
    IF event.key = "left" \/ event.key = "down"
    THEN PageBack(plotter.experiments[plotter.index + 1], plotter, fig,
                  plotParams, scatterer, show_map)
    ELSE PageOn(plotter.experiments[plotter.index + 1], plotter, fig,
                plotParams, scatterer, show_map)

\* process_key_waves: left/down pages back, right/up pages on, in the wiggle
\* panel and then in the map; any other key only redraws the canvas
process_key_waves(event, plotter, fig, plotParams, scatterer, show_map) ==
    IF event.key = "left" \/ event.key = "down"
    THEN PageBack(plotter.experiments[plotter.index + 1], plotter, fig,
                  plotParams, scatterer, show_map)
    ELSE IF event.key = "right" \/ event.key = "up"
    THEN PageOn(plotter.experiments[plotter.index + 1], plotter, fig,
                plotParams, scatterer, show_map)
    ELSE [raised |-> FALSE, plotter |-> plotter, fig |-> Draw(fig)]

\* what the two callbacks of one key press leave, s after the first
AfterBoth(s, w) ==
    [plotter |-> w.plotter, fig |-> w.fig,
     raised |-> (IF s.raised THEN {"switch_experiments"} ELSE {})
                \cup (IF w.raised THEN {"process_key_waves"} ELSE {})]

Second(event, s, plotParams, scatterer, show_map) ==
    AfterBoth(s, process_key_waves(event, s.plotter, s.fig, plotParams,
                                   scatterer, show_map))

\* one key_press_event: the figure's two callbacks run in the order they were
\* connected; the toolkit reports a callback's exception and goes on
Dispatch(event, plotter, fig, plotParams, scatterer, show_map) ==
    Second(event,
           switch_experiments(event, plotter, fig, plotParams, scatterer,
                              show_map),
           plotParams, scatterer, show_map)

\* ------------------------------------------------------------ singular vectors
\* the title of singular vector n; no branch assigns one for another flag
vector_title(flag, n, cmplx_part) ==
    LET part == IF cmplx_part.none THEN "" ELSE cmplx_part.val
        sym == IF flag = "left" THEN "\\phi" ELSE "\\psi"
        at == IF flag = "left" THEN "(\\mathbf{x}_r," ELSE "(\\mathbf{x}_s,"
        side == IF flag = "left" THEN "Left" ELSE "Right"
        hat == "\\{\\widehat{" \o sym \o "}_{" \o ToString(n) \o "}" \o at
               \o "\\nu)\\}$"
    IN  IF flag \notin {"left", "right"} THEN [raised |-> TRUE, val |-> ""]
        ELSE IF part = "real"
        THEN [raised |-> FALSE, val |-> "$\\mathrm{Re}" \o hat]
        ELSE IF part = "imag"
        THEN [raised |-> FALSE, val |-> "$\\mathrm{Im}" \o hat]
        ELSE [raised |-> FALSE,
              val |-> side \o "-Singular Vector $" \o sym \o "_{" \o ToString(n)
                      \o "}" \o at \o "t)$"]

\* what a renderer of a vector frame leaves: the axes as the plot function
\* left it and, in the axes' volume, what that function left in the view
VectorDrawn(ax, w) ==
    [raised |-> w.raised, ax |-> [w.ax EXCEPT !.volume[ax.index + 1] = w.X]]

\* the vector at ax.index under its title: as wiggles or, for a complex
\* part, as a frequency plot
VectorTitled(ax, xvals, interval, coordinates, flag, cmplx_part, plotParams, title) ==
    IF title.raised THEN [raised |-> TRUE, ax |-> ax]
    ELSE IF cmplx_part.none
    THEN VectorDrawn(ax, plotWiggles(ax, ax.volume[ax.index + 1], xvals,
                                     interval, coordinates, title.val, flag,
                                     plotParams))
    ELSE VectorDrawn(ax, plotFreqVectors(ax, ax.volume[ax.index + 1], xvals,
                                         interval, coordinates, title.val,
                                         flag, plotParams))

\* the lines next_vector and previous_vector share once ax.index is set
VectorAt(ax, xvals, interval, coordinates, flag, cmplx_part, plotParams) ==
    VectorTitled(ax, xvals, interval, coordinates, flag, cmplx_part,
                 plotParams, vector_title(flag, ax.index + 1, cmplx_part))

\* next_vector taking the volume to be one vector deeper than it is
next_vector_late(ax, xvals, interval, coordinates, flag, cmplx_part, plotParams) ==
    IF ax.index + 1 >= Len(ax.volume)
    THEN [raised |-> TRUE, ax |-> [ax EXCEPT !.index = ax.index + 1]]
    ELSE VectorAt([ax EXCEPT !.index = ax.index + 1], xvals, interval,
                  coordinates, flag, cmplx_part, plotParams)

\* the previous vector without the wrap at the first one
previous_vector_clamped(ax, xvals, interval, coordinates, flag, cmplx_part, plotParams) ==
    VectorAt([ax EXCEPT !.index = Max({ax.index - 1, 0})], xvals,
             interval, coordinates, flag, cmplx_part, plotParams)

next_vector(ax, xvals, interval, coordinates, flag, cmplx_part, plotParams) ==
    VectorAt([ax EXCEPT !.index = (ax.index + 1) % Len(ax.volume)], xvals,
             interval, coordinates, flag, cmplx_part, plotParams)

previous_vector(ax, xvals, interval, coordinates, flag, cmplx_part, plotParams) ==
    VectorAt([ax EXCEPT !.index = (ax.index - 1) % Len(ax.volume)], xvals,
             interval, coordinates, flag, cmplx_part, plotParams)

\* The statements of process_key_vectors after its branch is chosen: the
\* figure's title when one is set, the first panel (v1), the second (v2),
\* then the canvas is drawn.  A raise leaves what was assigned before it.
VectorPanels(fig, suptitle, v1, v2) ==
    LET named == IF suptitle.none THEN fig
                 ELSE [fig EXCEPT !.suptitle = suptitle.val]
    IN  IF ~suptitle.none /\ fig.axes[1].style.none
        THEN [raised |-> TRUE, fig |-> fig]
        ELSE IF v1.raised
        THEN [raised |-> TRUE, fig |-> [named EXCEPT !.axes[1] = v1.ax]]
        ELSE IF v2.raised
        THEN [raised |-> TRUE,
              fig |-> [named EXCEPT !.axes[1] = v1.ax, !.axes[2] = v2.ax]]
        ELSE [raised |-> FALSE,
              fig |-> Draw([named EXCEPT !.axes[1] = v1.ax, !.axes[2] = v2.ax])]

VectorsBack(fig, a, plotParams) ==
    IF a.dtype = Some("cmplx_left")
    THEN VectorPanels(fig, Some("Left-Singular Vector"),
             previous_vector(fig.axes[1], a.xvals, a.rinterval,
                             a.receiverPoints, "left", Some("real"), plotParams),
             previous_vector(fig.axes[2], a.xvals, a.rinterval,
                             a.receiverPoints, "left", Some("imag"), plotParams))
    ELSE IF a.dtype = Some("cmplx_right")
    THEN VectorPanels(fig, Some("Right-Singular Vector"),
             previous_vector(fig.axes[1], a.xvals, a.sinterval,
                             a.sourcePoints, "right", Some("real"), plotParams),
             previous_vector(fig.axes[2], a.xvals, a.sinterval,
                             a.sourcePoints, "right", Some("imag"), plotParams))
    ELSE VectorPanels(fig, None,
             previous_vector(fig.axes[1], a.xvals, a.rinterval,
                             a.receiverPoints, "left", None, plotParams),
             previous_vector(fig.axes[2], a.xvals, a.sinterval,
                             a.sourcePoints, "right", None, plotParams))

VectorsOn(fig, a, plotParams) ==
    IF a.dtype = Some("cmplx_left")
    THEN VectorPanels(fig, Some("Left-Singular Vector"),
             next_vector(fig.axes[1], a.xvals, a.rinterval,
                         a.receiverPoints, "left", Some("real"), plotParams),
             next_vector(fig.axes[2], a.xvals, a.rinterval,
                         a.receiverPoints, "left", Some("imag"), plotParams))
    ELSE IF a.dtype = Some("cmplx_right")
    THEN VectorPanels(fig, Some("Right-Singular Vector"),
             next_vector(fig.axes[1], a.xvals, a.sinterval,
                         a.sourcePoints, "right", Some("real"), plotParams),
             next_vector(fig.axes[2], a.xvals, a.sinterval,
                         a.sourcePoints, "right", Some("imag"), plotParams))
    ELSE VectorPanels(fig, None,
             next_vector(fig.axes[1], a.xvals, a.rinterval,
                         a.receiverPoints, "left", None, plotParams),
             next_vector(fig.axes[2], a.xvals, a.sinterval,
                         a.sourcePoints, "right", None, plotParams))

\* process_key_vectors, a being the arguments its callback was bound to:
\* left/down pages both panels back, right/up pages them on, any other key
\* only redraws the canvas
process_key_vectors(event, fig, a, plotParams) ==
    IF event.key = "left" \/ event.key = "down"
    THEN VectorsBack(fig, a, plotParams)
    ELSE IF event.key = "right" \/ event.key = "up"
    THEN VectorsOn(fig, a, plotParams)
    ELSE [raised |-> FALSE, fig |-> Draw(fig)]

\* --------------------------------------------------------------- image viewer
\* volume[volume > vmax] = vmin, in place on the slice passed
Clipped(volume, plotParams) ==
    [i \in DOMAIN volume |->
        IF FLeq(volume[i], Float(plotParams.vmax)) THEN volume[i]
        ELSE Float(plotParams.vmin)]

\* the axes image_viewer begins with: cleared, without grid, x and y labelled
ImageLabelled(ax, plotParams) ==
    [clear(ax) EXCEPT !.grid = FALSE,
                      !.xlabel = WithUnit(plotParams.xlabel, plotParams.xu),
                      !.ylabel = WithUnit(plotParams.ylabel, plotParams.yu)]

\* r'$\alpha = %0.1e$' of a one-digit alpha, r'$\alpha = %d$' of zero
AlphaTitle(alpha) ==
    IF alpha # 0 THEN "$\\alpha = " \o ToString(alpha) \o ".0e+00$"
    ELSE "$\\alpha = 0$"

\* image_viewer with its parameters bound: without Z the slice is clipped
\* and drawn as a mesh under the title of alpha; with Z the isosurface is
\* drawn and then `title +=` reads a title that no statement has assigned
image_viewer(ax, volume, method, alpha, atol, btol, plotParams, X, Y, Z, tau) ==
    IF ax.style.none THEN [raised |-> TRUE, ax |-> [clear(ax) EXCEPT !.grid = FALSE]]
    ELSE IF Z.none
    THEN [raised |-> FALSE,
          ax |-> [ImageLabelled(ax, plotParams) EXCEPT
                    !.artists = @ \o << [kind |-> "image",
                                    y |-> Clipped(volume, plotParams),
                                    cmap |-> plotParams.image_colormap] >>,
                    !.title = AlphaTitle(alpha)]]
    ELSE [raised |-> TRUE,
          ax |-> [ImageLabelled(ax, plotParams) EXCEPT
                    !.artists = @ \o << [kind |-> "surface", y |-> volume,
                                    level |-> plotParams.isolevel] >>,
                    !.zlabel = WithUnit(plotParams.zlabel, plotParams.zu)]]

\* the number of parameters of image_viewer without a default (ax to Y)
RequiredArgs == 9

\* a call image_viewer(*args): the positional arguments bind to the
\* parameters in order, Z and tau default to None, and a call with fewer
\* than the required ones raises TypeError before the body runs
image_viewer_call(args) ==
    IF Len(args) < RequiredArgs THEN [raised |-> TRUE, ax |-> args[1]]
    ELSE image_viewer(args[1], args[2], args[3], args[4], args[5], args[6],
                      args[7], args[8], args[9],
                      IF Len(args) >= 10 THEN args[10] ELSE None,
                      IF Len(args) >= 11 THEN args[11] ELSE None)

\* plotImage's call of image_viewer on the axes ax: the image with the
\* entries of Dict, with tau only for the time domain; plotImage makes the
\* axes afresh, of the view mode
ImageOn(ax, Dict, X, Y, Z, tau, plotParams) ==
    IF Dict.domain = "time"
    THEN image_viewer_call(<<ax, Dict.Image, Dict.method, Dict.alpha,
                             Dict.atol, Dict.btol, plotParams, X, Y, Z, tau>>)
    ELSE image_viewer_call(<<ax, Dict.Image, Dict.method, Dict.alpha,
                             Dict.atol, Dict.btol, plotParams, X, Y, Z>>)

plotImage(Dict, X, Y, Z, tau, plotParams) ==
    ImageOn(NewAxes(plotParams.view_mode), Dict, X, Y, Z, tau, plotParams)

\* the lines next_image and previous_image share after they set ax.index:
\* image_viewer(ax, volume[..., ax.index], plotParams, alpha, X, Y, Z,
\* tau[ax.index])
ImageAt(ax, plotParams, alpha, X, Y, Z, tau) ==
    IF ax.index + 1 \notin DOMAIN ax.volume \/ ax.index + 1 \notin DOMAIN tau
    THEN [raised |-> TRUE, ax |-> ax]
    ELSE image_viewer_call(<<ax, ax.volume[ax.index + 1], plotParams, alpha,
                             X, Y, Z, tau[ax.index + 1]>>)

previous_image(ax, plotParams, alpha, X, Y, Z, Ntau, tau) ==
    ImageAt([ax EXCEPT !.index = (ax.index - 1) % Ntau], plotParams, alpha,
            X, Y, Z, tau)

next_image(ax, plotParams, alpha, X, Y, Z, Ntau, tau) ==
    ImageAt([ax EXCEPT !.index = (ax.index + 1) % Ntau], plotParams, alpha,
            X, Y, Z, tau)

\* what process_key_images leaves after paging: when the paging raised, the
\* axes as the exception left them and the canvas not redrawn
ImagePaged(fig, r) ==
    IF r.raised THEN [raised |-> TRUE, fig |-> [fig EXCEPT !.axes[1] = r.ax]]
    ELSE [raised |-> FALSE, fig |-> Draw([fig EXCEPT !.axes[1] = r.ax])]

\* process_key_images: left/down pages back, right/up pages on, any other
\* key only redraws the canvas
process_key_images(event, fig, plotParams, alpha, X, Y, Z, Ntau, tau) ==
    IF event.key = "left" \/ event.key = "down"
    THEN ImagePaged(fig, previous_image(fig.axes[1], plotParams, alpha, X, Y,
                                        Z, Ntau, tau))
    ELSE IF event.key = "right" \/ event.key = "up"
    THEN ImagePaged(fig, next_image(fig.axes[1], plotParams, alpha, X, Y, Z,
                                    Ntau, tau))
    ELSE [raised |-> FALSE, fig |-> Draw(fig)]

\* ---------------------------------------------------------------------- state
VARIABLES
    plotter,      \* the Plotter: its experiments (data included) and its index
    fig,          \* the figure: its axes, what its canvas shows, its callbacks
    bound,        \* what the callback of process_key_vectors or of
                  \* process_key_images was bound to, or None
    plotParams,   \* the style configuration
    scatterer,    \* the scatterer boundary, or None
    show_map,     \* whether the figure has a map panel
    raised,       \* the handlers that raised on the last key press
    supplied,     \* history: the experiments as they were supplied
    last,         \* history: the last key pressed and the state it found
    nav,          \* history: the key before it, the run of equal page steps
                  \* and each experiment's own cursor (kept in SpecNav only)
    call          \* the function called outside a viewer, with what it was
                  \* given and what it left (fn = "": none)

vars == <<plotter, fig, bound, plotParams, scatterer, show_map, raised, supplied,
          last, nav, call>>

\* ------------------------------------------------------------- the supplied data
\* sample t of trace n of frame k: frames differ, traces alternate in sign,
\* and amp = 0 gives constant traces
Sample(amp, k, n, t) ==
    (k + 1) + (IF n % 2 = 1 THEN 1 ELSE -1) * amp * k * (t - 1)

Frame(amp, Nr, k) ==
    [tr |-> [n \in 1..Nr |-> [t \in 1..Nt |-> FromInt(Sample(amp, k, n, t))]]]

\* a point of `dim` coordinates, in hundredths
Point(dim, x) == [d \in 1..dim |-> x + 333 * (d - 1)]

\* an experiment of Ns sources (numbered from first) and Nr receivers, with
\* `rows` source points (None: the source positions are unknown)
MakeExperiment(Ns, Nr, rows, dim, amp, flag, first) ==
    Experiment([k \in 1..Ns |-> Frame(amp, Nr, k)],
               [t \in 1..Nt |-> t - 1],
               [n \in 1..Nr |-> n],
               [n \in 1..Nr |-> Point(dim, 100 * n)],
               [k \in 1..Ns |-> first + k - 1],
               IF rows.none THEN None
               ELSE Some([k \in 1..rows.val |-> Point(dim, 23 + 100 * (first + k - 1))]),
               flag)

Keys == {"left", "right", "up", "down", "r", "x"}
Back == {"left", "down"}
Forth == {"right", "up"}

\* the styles a session is drawn from: <<wiggleType, dimension, unit, amp>>
Styles ==
    { <<"data", 2, "", 1>>, <<"data", 3, "m", 0>>,
      <<"impulse", 2, "m", 1>>, <<"impulse", 3, "", 0>> }

Square(dim) == <<Point(dim, 0), Point(dim, 50)>>

\* the cursors of the figure's axes
Cursors(f) ==
    [a \in DOMAIN f.axes |->
        IF "index" \in DOMAIN f.axes[a] THEN f.axes[a].index
                                        ELSE f.axes[a].source_index]

\* no function called outside a viewer
NoCall == [fn |-> ""]

\* the callbacks connected to the figure of a wave viewer and to that of a
\* singular-vector viewer
WaveCallbacks == <<"switch_experiments", "process_key_waves">>
VectorCallbacks == <<"process_key_vectors">>
ImageCallbacks == <<"process_key_images">>

\* the number of sources of an experiment (0 for None)
Sources(e) == IF e.none THEN 0 ELSE Len(e.sourceNumbers)

\* A session: Plotter(original, reciprocal).plot(scatterer, plotParams,
\* show_map) returned without raising.  Both experiments have the wiggle
\* type, the dimension and the receivers of the recording; the reciprocal
\* one (Ns2 = 0: None) has its own sources, one or many.  An experiment whose source
\* positions are known has one source point per source.
InitFrom(styles, maps, receivers, knowns) ==
    \E st \in styles, sm \in maps, Ns \in 1..MaxNs, Nr \in receivers,
       known \in knowns, Ns2 \in {0, 1, MaxNs} :
        LET pp == [default_params EXCEPT !.xu = st[3], !.yu = st[3],
                                         !.zu = st[3]]
            pts(n) == IF known THEN Some(n) ELSE None
            original == MakeExperiment(Ns, Nr, pts(Ns), st[2], st[4], st[1], 1)
            reciprocal == IF Ns2 = 0 THEN None
                          ELSE MakeExperiment(Ns2, Nr, pts(Ns2), st[2], st[4],
                                              st[1], 11)
            sc == Some(Square(st[2]))
        IN  \E p \in {PlotterPlot(original, reciprocal, sc, pp, sm)} :
                /\ ~p.raised
                /\ plotter = p.plotter
                /\ fig = p.fig
                /\ bound = None
                /\ call = NoCall
                /\ plotParams = pp
                /\ scatterer = sc
                /\ show_map = sm
                /\ raised = {}
                /\ supplied = <<original, reciprocal>>
                /\ last = [key |-> "", cursors |-> Cursors(p.fig), index |-> 0]
                /\ nav = [prev |-> [key |-> "", cursors |-> Cursors(p.fig),
                                    index |-> 0],
                          run |-> 0, start |-> Cursors(p.fig)[1],
                          own |-> <<Cursors(p.fig)[1], Ns2 \div 2>>,
                          switches |-> 0]

Init == InitFrom(Styles, BOOLEAN, {1, MaxNr}, BOOLEAN)

\* ------------------------------------------------------------------ key press
\* a key pressed in the figure of a wave viewer
KeyPress(key) ==
    /\ fig.callbacks = WaveCallbacks
    /\ \E r \in {Dispatch([key |-> key], plotter, fig, plotParams, scatterer,
                           show_map)} :
        /\ plotter' = r.plotter
        /\ fig' = r.fig
        /\ raised' = r.raised
        /\ last' = [key |-> key, cursors |-> Cursors(fig), index |-> plotter.index]
        /\ UNCHANGED <<bound, plotParams, scatterer, show_map, supplied, call>>

Next == \E key \in Keys : KeyPress(key) /\ UNCHANGED nav

Spec == Init /\ [][Next]_vars

\* ------------------------------------------------------- navigation history
\* the direction of a key: 1 pages on, -1 pages back, 0 does not page
Dir(key) == IF key \in Forth THEN 1 ELSE IF key \in Back THEN -1 ELSE 0

\* nav after `key`, pressed in the state (plotter, fig): prev is the key
\* press before this one; the run counts the page steps of one direction in
\* a row since the cursor `start`, and begins again at any other key and once
\* it has made as many steps as the experiment has sources; own[i] is the
\* cursor experiment i was last shown at (before it is first shown, the
\* cursor Experiment.plot would give it); switches counts the 'r' presses
\* modulo 2
Track(key) ==
    LET d == Dir(key)
        pages == IF fig.callbacks = VectorCallbacks
                 THEN Len(fig.axes[1].volume)
                 ELSE Sources(plotter.experiments[plotter.index + 1])
        goesOn == d # 0 /\ nav.run * d > 0 /\ Abs(nav.run) < pages
    IN  [prev |-> last,
         switches |-> IF key = "r" THEN (nav.switches + 1) % 2 ELSE nav.switches,
         run |-> IF goesOn THEN nav.run + d ELSE d,
         start |-> IF goesOn THEN nav.start ELSE Cursors(fig)[1],
         own |-> [nav.own EXCEPT ![plotter'.index + 1] = Cursors(fig')[1]]]

\* a key pressed in the figure of a singular-vector viewer
VectorKeyPress(key) ==
    /\ fig.callbacks = VectorCallbacks
    /\ \E r \in {process_key_vectors([key |-> key], fig, bound.val, plotParams)} :
        /\ fig' = r.fig
        /\ raised' = IF r.raised THEN {"process_key_vectors"} ELSE {}
        /\ last' = [key |-> key, cursors |-> Cursors(fig), index |-> plotter.index]
        /\ UNCHANGED <<plotter, bound, plotParams, scatterer, show_map, supplied,
                       call>>

NextNav ==
    \/ \E key \in Keys : KeyPress(key) /\ nav' = Track(key)
    \/ \E key \in Keys : VectorKeyPress(key) /\ nav' = Track(key)

\* wave sessions of one style, whose history of key presses is kept in nav
InitNav == InitFrom({<<"data", 2, "", 1>>}, BOOLEAN, {1}, {TRUE})

\* a singular-vector session: the figure as process_key_vectors expects it,
\* two axes that each carry a volume of vectors (n traces each) and the
\* index of the vector on display, and the arguments the callback is bound
\* to; the second volume is as deep as the first (K vectors, and the same
\* index) or, in a session of real vectors of one trace, holds a single vector
InitVectors ==
    \E K \in 1..MaxNs, K2 \in 1..MaxNs, n \in {1, MaxNr}, i \in 0..(MaxNs - 1),
       dt \in {None, Some("cmplx_left"), Some("cmplx_right")} :
        LET ax(j, depth, at) ==
                [index |-> at,
                 volume |-> [k \in 1..depth |-> Frame(1, n, k + j)]]
                @@ NewAxes(default_params.view_mode)
            ax1 == ax(0, K, i)
            ax2 == ax(1, K2, IF K2 = K THEN i ELSE 0)
            points == [m \in 1..n |-> Point(2, 100 * m)]
        IN  /\ i < K
            /\ K2 = K \/ (K2 = 1 /\ n = 1 /\ dt.none)
            /\ fig = [axes |-> <<ax1, ax2>>, canvas |-> <<ax1, ax2>>,
                      suptitle |-> "", callbacks |-> VectorCallbacks]
            /\ bound = Some([xvals |-> [t \in 1..Nt |-> t - 1],
                             rinterval |-> [m \in 1..n |-> m],
                             sinterval |-> [m \in 1..n |-> m],
                             receiverPoints |-> Some(points),
                             sourcePoints |-> Some(points),
                             dtype |-> dt])
            /\ call = NoCall
            /\ plotter = [experiments |-> <<None, None>>, index |-> 0]
            /\ plotParams = default_params
            /\ scatterer = None
            /\ show_map = FALSE
            /\ raised = {}
            /\ supplied = <<None, None>>
            /\ last = [key |-> "", cursors |-> <<ax1.index, ax2.index>>,
                       index |-> 0]
            /\ nav = [prev |-> [key |-> "",
                                cursors |-> <<ax1.index, ax2.index>>,
                                index |-> 0],
                      run |-> 0, start |-> i, own |-> <<i, 0>>, switches |-> 0]

SpecNav == (InitNav \/ InitVectors) /\ [][NextNav]_vars

\* ------------------------------------------------------------ image sessions
\* an image session: the figure as process_key_images expects it, one axes
\* that carries the stack of Ntau images (one per regularization parameter
\* tau) and the index of the image on display, and the arguments the
\* callback is bound to (Z is None for images over a plane)
InitImages ==
    \E Ntau \in 1..MaxNs, c \in 0..(MaxNs - 1), alpha \in {0, 2},
       Z \in {None, Some("Z")}, mode \in {"light", "dark"} :
        LET ax == [index |-> c,
                   volume |-> [k \in 1..Ntau |->
                                 [t \in 1..Nt |-> FromInt(k + t - 2)]]]
                  @@ NewAxes(mode)
        IN  /\ c < Ntau
            /\ fig = [axes |-> <<ax>>, canvas |-> <<ax>>, suptitle |-> "",
                      callbacks |-> ImageCallbacks]
            /\ bound = Some([alpha |-> alpha, X |-> "X", Y |-> "Y", Z |-> Z,
                             Ntau |-> Ntau, tau |-> [k \in 1..Ntau |-> k]])
            /\ call = NoCall
            /\ plotter = [experiments |-> <<None, None>>, index |-> 0]
            /\ plotParams = [default_params EXCEPT !.view_mode = mode]
            /\ scatterer = None
            /\ show_map = FALSE
            /\ raised = {}
            /\ supplied = <<None, None>>
            /\ last = [key |-> "", cursors |-> <<c>>, index |-> 0]
            /\ nav = [prev |-> [key |-> "", cursors |-> <<c>>, index |-> 0],
                      run |-> 0, start |-> c, own |-> <<c, 0>>, switches |-> 0]

\* one key_press_event on an image figure
ImageKeyPress(key) ==
    /\ fig.callbacks = ImageCallbacks
    /\ \E r \in {process_key_images([key |-> key], fig, plotParams,
                                      bound.val.alpha, bound.val.X, bound.val.Y,
                                      bound.val.Z, bound.val.Ntau,
                                      bound.val.tau)} :
        /\ fig' = r.fig
        /\ raised' = IF r.raised THEN {"process_key_images"} ELSE {}
        /\ last' = [key |-> key, cursors |-> Cursors(fig), index |-> plotter.index]
        /\ UNCHANGED <<plotter, bound, plotParams, scatterer, show_map, supplied,
                       call, nav>>

NextImages == \E key \in Keys : ImageKeyPress(key)

SpecImages == InitImages /\ [][NextImages]_vars

\* ------------------------------------------------- calls outside a viewer
\* the viewer's variables while no viewer is open
NoViewer ==
    /\ plotter = [experiments |-> <<None, None>>, index |-> 0]
    /\ fig = [axes |-> <<>>, canvas |-> <<>>, suptitle |-> "", callbacks |-> <<>>]
    /\ bound = None
    /\ plotParams = default_params
    /\ scatterer = None
    /\ show_map = FALSE
    /\ raised = {}
    /\ supplied = <<None, None>>
    /\ last = [key |-> "", cursors |-> <<>>, index |-> 0]
    /\ nav = [prev |-> [key |-> "", cursors |-> <<>>, index |-> 0],
              run |-> 0, start |-> 0, own |-> <<0, 0>>, switches |-> 0]

InitCalls == NoViewer /\ call = NoCall

\* the trace counts at and around which plotWiggles changes its mode
TraceCounts ==
    {1, 2, TickLabelMax, TickLabelMax + 1, StackedMax, StackedMax + 1}

\* the frames drawn: all zero, constant traces, and traces that vary (whose
\* largest range is a power of two for k = 2 and is not for k = 3)
Shapes == {"zero", "flat", "even", "waves"}

ShapedFrame(shape, n) ==
    IF shape = "zero"
    THEN [tr |-> [i \in 1..n |-> [t \in 1..Nt |-> FromInt(0)]]]
    ELSE IF shape = "flat" THEN Frame(0, n, 2)
    ELSE IF shape = "even" THEN Frame(1, n, 2)
    ELSE Frame(1, n, 3)

RenderFns == {"plotWiggles", "plotFreqVectors"}

\* one call of fn on the axes ax and the frame X, of a receiver stack
RenderBy(fn, ax, X, pp) ==
    IF fn = "plotWiggles"
    THEN plotWiggles(ax, X, [t \in 1..Nt |-> t - 1],
                     [n \in 1..Len(X.tr) |-> n],
                     Some([n \in 1..Len(X.tr) |-> Point(2, 100 * n)]),
                     "Data", "data", pp)
    ELSE plotFreqVectors(ax, X, [t \in 1..Nt |-> t - 1],
                         [n \in 1..Len(X.tr) |-> n],
                         Some([n \in 1..Len(X.tr) |-> Point(2, 100 * n)]),
                         "Vector", "left", pp)

\* fn renders a frame on fresh axes
FirstRender ==
    /\ call = NoCall
    /\ \E fn \in RenderFns, n \in TraceCounts, shape \in Shapes,
          cmap \in {"grays", "native"} :
        \E r \in {RenderBy(fn, NewAxes(default_params.view_mode),
                            ShapedFrame(shape, n),
                            [default_params EXCEPT !.wiggle_colormap = cmap])} :
            call' = [fn |-> fn, given |-> ShapedFrame(shape, n),
                     pp |-> [default_params EXCEPT !.wiggle_colormap = cmap],
                     renders |-> 1, raised |-> r.raised,
                     ax |-> r.ax, X |-> r.X,
                     once |-> [ax |-> r.ax, X |-> r.X]]
    /\ UNCHANGED <<plotter, fig, bound, plotParams, scatterer, show_map, raised,
                   supplied, last, nav>>

\* fn renders the same frame, as it is now, on the same axes once more
NextRender ==
    /\ call.fn \in RenderFns
    /\ call.renders < MaxRenders
    /\ \E r \in {RenderBy(call.fn, call.ax, call.X, call.pp)} :
            call' = [call EXCEPT !.renders = @ + 1, !.raised = r.raised,
                                 !.ax = r.ax, !.X = r.X]
    /\ UNCHANGED <<plotter, fig, bound, plotParams, scatterer, show_map, raised,
                   supplied, last, nav>>

\* the flags set_ylabel is called with, and one it does not know
Flags == {"data", "impulse", "left", "right", "image"}

\* the coordinates passed to set_ylabel: none, or rows of 2 or 3 coordinates
\* in hundredths, of which it reads the first
Coordinates ==
    {None, Some(<<<<123, 456>>, <<700, 800>>>>), Some(<<<<-5, 1000>>>>),
     Some(<<<<123, 456, 789>>>>)}

\* set_ylabel(N, coordinates, id_number, flag, plotParams)
LabelCall ==
    /\ call = NoCall
    /\ \E N \in {1, 2}, coordinates \in Coordinates, id_number \in {1, 3},
          flag \in Flags, au \in {"", "Pa"}, xu \in {"", "m"},
          yu \in {"", "m"}, zu \in {"", "km"} :
        \E pp \in {[default_params EXCEPT !.au = au, !.xu = xu, !.yu = yu,
                                          !.zu = zu]} :
        \E r \in {set_ylabel(N, coordinates, id_number, flag, pp)} :
            call' = [fn |-> "set_ylabel", N |-> N, coordinates |-> coordinates,
                     id_number |-> id_number, flag |-> flag, pp |-> pp,
                     raised |-> r.raised, val |-> r.val]
    /\ UNCHANGED <<plotter, fig, bound, plotParams, scatterer, show_map, raised,
                   supplied, last, nav>>

\* the dictionaries the calls of default_params() have returned so far, in
\* the order of the calls (each call builds its own)
Returned == IF call.fn = "default_params" THEN call.heap ELSE <<>>

\* default_params(): a new dictionary is built and returned
ParamsCall ==
    /\ call.fn \in {"", "default_params"}
    /\ Len(Returned) < MaxCalls
    /\ call' = [fn |-> "default_params",
                heap |-> Append(Returned, default_params),
                written |-> IF call.fn = "" THEN {} ELSE call.written]
    /\ UNCHANGED <<plotter, fig, bound, plotParams, scatterer, show_map, raised,
                   supplied, last, nav>>

\* the caller sets a key of one of the dictionaries returned
ParamsSet ==
    /\ call.fn = "default_params"
    /\ \E d \in DOMAIN call.heap :
        \E kv \in {<<"view_mode", "dark">>, <<"view_mode", "light">>,
                    <<"vmax", <<1, 2>>>>} :
            call' = [call EXCEPT !.heap[d][kv[1]] = kv[2],
                                 !.written = @ \cup {d}]
    /\ UNCHANGED <<plotter, fig, bound, plotParams, scatterer, show_map, raised,
                   supplied, last, nav>>

\* the receivers of the maps drawn by MapCall
MapReceiverPoints(dim) == [n \in 1..MaxNr |-> Point(dim, 100 * n)]

\* plotMap(ax, index, receiverPoints, sourcePoints, scatterer, flag,
\* plotParams) on fresh axes, with an index in the range of the rows of
\* sourcePoints or one past them, every setting of the three visibility
\* toggles, and a scatterer or None
MapCall ==
    /\ call = NoCall
    /\ \E Ns \in 1..MaxNs, dim \in {2, 3}, flag \in {"data", "impulse", "left"},
          shown \in BOOLEAN \X BOOLEAN \X BOOLEAN, bounded \in BOOLEAN :
        \E index \in 0..Ns :
        \E pp \in {[default_params EXCEPT !.show_sources = shown[1],
                                          !.show_receivers = shown[2],
                                          !.show_scatterer = shown[3]]},
           pts \in {[k \in 1..Ns |-> Point(dim, 23 + 100 * k)]},
           sc \in {IF bounded THEN Some(Square(dim)) ELSE None} :
        \E r \in {plotMap(NewAxes(pp.view_mode), Some(index),
                           MapReceiverPoints(dim), Some(pts), sc, flag, pp)} :
            call' = [fn |-> "plotMap", index |-> index, sourcePoints |-> pts,
                     scatterer |-> sc, flag |-> flag, pp |-> pp,
                     raised |-> r.raised, ax |-> r.ax, renders |-> 1]
    /\ UNCHANGED <<plotter, fig, bound, plotParams, scatterer, show_map, raised,
                   supplied, last, nav>>

\* wave_title(index, sourceNumbers, sourcePoints, flag, plotParams) for an
\* index in the range of the sources, whose positions are unknown or rows of
\* 2 or 3 coordinates
TitleCall ==
    /\ call = NoCall
    /\ \E Ns \in 1..MaxNs, dim \in {0, 2, 3}, flag \in {"data", "impulse"},
          xu \in {"", "m"}, yu \in {"", "m"}, zu \in {"", "km"} :
        \E index \in 0..(Ns - 1) :
        \E pp \in {[default_params EXCEPT !.xu = xu, !.yu = yu, !.zu = zu]},
           pts \in {IF dim = 0 THEN None
                    ELSE Some([k \in 1..Ns |-> Point(dim, 23 + 100 * k)])} :
        \E r \in {wave_title(index, [k \in 1..Ns |-> k], pts, flag, pp)} :
            call' = [fn |-> "wave_title", index |-> index, sourcePoints |-> pts,
                     flag |-> flag, pp |-> pp, raised |-> r.raised,
                     val |-> r.val]
    /\ UNCHANGED <<plotter, fig, bound, plotParams, scatterer, show_map, raised,
                   supplied, last, nav>>

\* plotImage(Dict, X, Y, Z, tau, plotParams, flag) of an image over a plane
\* (Z is None) or a volume, in the time domain (with tau or with tau None)
\* or another
ImageCall ==
    /\ call = NoCall
    /\ \E Z \in {None, Some("Z")}, alpha \in {0, 2}, tau \in {None, Some(1)},
          domain \in {"time", "freq"}, mode \in {"light", "dark"},
          k \in 1..MaxNs :
        \E pp \in {[default_params EXCEPT !.view_mode = mode]},
           Dict \in {[Image |-> [t \in 1..Nt |-> FromInt(k + t - 2)],
                      method |-> "lsmr", alpha |-> alpha, atol |-> 1,
                      btol |-> 1, domain |-> domain]} :
        \E r \in {plotImage(Dict, "X", "Y", Z, tau, pp)} :
            call' = [fn |-> "plotImage", Dict |-> Dict, Z |-> Z, tau |-> tau,
                     pp |-> pp, raised |-> r.raised, ax |-> r.ax,
                     renders |-> 1]
    /\ UNCHANGED <<plotter, fig, bound, plotParams, scatterer, show_map, raised,
                   supplied, last, nav>>

\* the axes a map or an image was drawn on are drawn on once more: plotMap
\* with the next index, image_viewer with the same image
RenderOver ==
    /\ call.fn \in {"plotMap", "plotImage"}
    /\ call.renders < MaxRenders
    /\ \E r \in {IF call.fn = "plotMap"
                  THEN plotMap(call.ax,
                               Some((call.index + 1) % Len(call.sourcePoints)),
                               MapReceiverPoints(Len(call.sourcePoints[1])),
                               Some(call.sourcePoints), call.scatterer,
                               call.flag, call.pp)
                  ELSE ImageOn(call.ax, call.Dict, "X", "Y", call.Z, call.tau,
                               call.pp)} :
            call' = IF call.fn = "plotMap"
                    THEN [call EXCEPT
                            !.renders = @ + 1, !.raised = r.raised,
                            !.ax = r.ax,
                            !.index = (@ + 1) % Len(call.sourcePoints)]
                    ELSE [call EXCEPT !.renders = @ + 1,
                                      !.raised = r.raised, !.ax = r.ax]
    /\ UNCHANGED <<plotter, fig, bound, plotParams, scatterer, show_map, raised,
                   supplied, last, nav>>

\* ------------------------------------------------- remove_keymap_conflicts
\* keys.remove(key): the list without its first item equal to key
RECURSIVE remove(_, _)
remove(keys, key) ==
    IF keys = <<>> THEN <<>>
    ELSE IF Head(keys) = key THEN Tail(keys)
    ELSE <<Head(keys)>> \o remove(Tail(keys), key)

\* for key in remove_list: keys.remove(key)
RECURSIVE RemoveEach(_, _)
RemoveEach(keys, remove_list) ==
    IF remove_list = {} THEN keys
    ELSE LET key == CHOOSE k \in remove_list : TRUE
         IN  RemoveEach(remove(keys, key), remove_list \ {key})

\* prop.startswith('keymap.') of a setting named <<group, name>> for
\* 'group.name'
IsKeymap(prop) == prop[1] = "keymap"

\* remove_keymap_conflicts(new_keys_set) on the settings rcParams: the
\* settings it leaves
remove_keymap_conflicts(rcParams, new_keys_set) ==
    [prop \in DOMAIN rcParams |->
        IF IsKeymap(prop)
        THEN RemoveEach(rcParams[prop], Range(rcParams[prop]) \cap new_keys_set)
        ELSE rcParams[prop]]

\* the keys Experiment.plot and Plotter.plot take from the toolkit
ExperimentKeys == {"left", "right", "up", "down", "save"}
PlotterKeys == {"r"}

\* the lists of at most MaxKeys keys a command of the toolkit can be bound to
KeyLists == UNION {[1..n -> {"left", "r", "c"}] : n \in 0..MaxKeys}

\* remove_keymap_conflicts(new_keys_set) with two commands bound to keys and
\* a setting that is no keymap
KeymapCall ==
    /\ call = NoCall
    /\ \E back \in KeyLists, home \in {<<>>, <<"r", "left">>, <<"h", "r", "home">>},
          family \in {<<"sans-serif">>, <<"r", "left">>},
          new_keys_set \in {ExperimentKeys, PlotterKeys} :
        \E rcParams \in {(<<"keymap", "back">> :> back)
                          @@ (<<"keymap", "home">> :> home)
                          @@ (<<"font", "family">> :> family)} :
            call' = [fn |-> "remove_keymap_conflicts",
                     new_keys_set |-> new_keys_set, before |-> rcParams,
                     once |-> remove_keymap_conflicts(rcParams, new_keys_set),
                     rcParams |-> remove_keymap_conflicts(rcParams, new_keys_set),
                     calls |-> 1]
    /\ UNCHANGED <<plotter, fig, bound, plotParams, scatterer, show_map, raised,
                   supplied, last, nav>>

\* remove_keymap_conflicts called again with the same keys
KeymapAgain ==
    /\ call.fn = "remove_keymap_conflicts"
    /\ call.calls < MaxCalls
    /\ call' = [call EXCEPT
                  !.rcParams = remove_keymap_conflicts(@, call.new_keys_set),
                  !.calls = @ + 1]
    /\ UNCHANGED <<plotter, fig, bound, plotParams, scatterer, show_map, raised,
                   supplied, last, nav>>

NextCalls ==
    \/ FirstRender \/ NextRender \/ ImageCall \/ RenderOver
    \/ LabelCall \/ TitleCall
    \/ ParamsCall \/ ParamsSet
    \/ MapCall
    \/ KeymapCall \/ KeymapAgain

SpecCalls == InitCalls /\ [][NextCalls]_vars

\* ================================================================ properties
\* the experiment on display, its number of sources, the cursor of the wiggle
\* panel and the cursor that panel had before the last key press
Cur == plotter.experiments[plotter.index + 1]
N == Sources(Cur)
Cursor == Cursors(fig)[1]
Before == last.cursors[1]

\* the frame the wiggles drawn on ax were drawn from
DrawnFrame(ax) ==
    IF ax.artists = <<>> THEN None
    ELSE IF ax.artists[1].kind = "mesh" THEN Some(ax.artists[1].y)
    ELSE Some([tr |-> [n \in 1..(Len(ax.artists) \div 3) |->
                        ax.artists[3 * n - 2].y]])

\* the wiggle panel and the window show experiment e at the panel's cursor:
\* the title of that source over the frame of that source
Shown(e) ==
    /\ ~e.none
    /\ Cursor + 1 \in DOMAIN e.data
    /\ fig.axes[1].title = wave_title(Cursor, e.sourceNumbers, e.sourcePoints,
                                      e.wiggleType, plotParams).val
    /\ DrawnFrame(fig.axes[1]) = Some(e.data[Cursor + 1])
    /\ fig.canvas[1] = fig.axes[1]

\* C1: the cursor of the wiggle panel is always a valid index into the
\* sources of the experiment on display, 0 <= cursor < N, also after 'r' has
\* switched to an experiment with another number of sources.
C1_CursorInRange == Cursor \in 0..(N - 1)

\* C2: a 'right' or 'up' key pressed at a cursor c in [0, N) leaves the cursor
\* at (c + 1) mod N, the last source wrapping to the first, and the panel and
\* the window show the frame of that source; the handler does not raise.
C2_AdvanceWraps ==
    (last.key \in Forth /\ Before \in 0..(N - 1)) =>
        /\ Cursor = (Before + 1) % N
        /\ Shown(Cur)
        /\ "process_key_waves" \notin raised

C2_Wrapped ==
    /\ last.key \in Forth /\ N >= 2 /\ Before = N - 1
    /\ Cursor = 0 /\ Shown(Cur)

\* C3: a 'left' or 'down' key pressed at a cursor c in [0, N) leaves the
\* cursor at (c - 1 + N) mod N, the first source wrapping to the last, and
\* the panel and the window show the frame of that source; the handler does
\* not raise.
C3_RetreatWraps ==
    (last.key \in Back /\ Before \in 0..(N - 1)) =>
        /\ Cursor = (Before - 1 + N) % N
        /\ Shown(Cur)
        /\ "process_key_waves" \notin raised

C3_Wrapped ==
    /\ last.key \in Back /\ N >= 2 /\ Before = 0
    /\ Cursor = N - 1 /\ Shown(Cur)

\* the number of pages of the stack on display: the sources of the
\* experiment or the vectors of the volume
Pages == IF fig.callbacks = VectorCallbacks THEN Len(fig.axes[1].volume) ELSE N

\* C4: a page step on followed by a page step back, or a step back followed
\* by a step on, taken from cursors in [0, N), leaves every panel's cursor
\* where it was: the wiggle panel's and the map's in a wave viewer, both
\* panels' in a singular-vector viewer.
C4_StepsUndo ==
    (/\ \/ nav.prev.key \in Forth /\ last.key \in Back
        \/ nav.prev.key \in Back /\ last.key \in Forth
     /\ \A a \in DOMAIN nav.prev.cursors :
            nav.prev.cursors[a] \in 0..(Pages - 1))
        => Cursors(fig) = nav.prev.cursors

C4_UndoneAcrossWrap ==
    /\ show_map /\ N >= 2
    /\ nav.prev.key \in Forth /\ last.key \in Back
    /\ nav.prev.cursors = <<N - 1, N - 1>>
    /\ last.cursors = <<0, 0>>
    /\ Cursors(fig) = <<N - 1, N - 1>>

\* C5: from a cursor in [0, N), N page steps of one direction in a row bring
\* the cursor back to where the run began, and no smaller positive number
\* of steps does.
C5_PeriodIsN ==
    (nav.run # 0 /\ nav.start \in 0..(Pages - 1)) =>
        ((Cursor = nav.start) <=> (Abs(nav.run) = Pages))

C5_FullCircle ==
    /\ N >= 2 /\ Abs(nav.run) = N /\ nav.start \in 0..(N - 1)
    /\ Cursor = nav.start

\* C6: with a reciprocal experiment, plotter.index is 0 or 1 and equals the
\* number of 'r' presses so far modulo 2, whatever other keys came between.
C6_IndexIsParity ==
    ~plotter.experiments[2].none =>
        (plotter.index \in {0, 1} /\ plotter.index = nav.switches)

C6_BackAtOriginal ==
    /\ ~plotter.experiments[2].none
    /\ last.key = "r" /\ last.index = 1 /\ plotter.index = 0
    /\ nav.prev.key \notin {"r", ""}

\* C7: without a reciprocal experiment, plotter.index stays 0, the
\* experiment selected is never None, and an 'r' key raises in no handler.
C7_SingleExperiment ==
    plotter.experiments[2].none =>
        /\ plotter.index = 0
        /\ ~Cur.none
        /\ (last.key = "r" => raised = {})

C7_SwitchedAlone ==
    /\ plotter.experiments[2].none /\ last.key = "r"
    /\ plotter.index = 0 /\ Shown(Cur)

\* C8: an 'r' key that changes the experiment shows the new experiment at
\* that experiment's own cursor: the paging done while the other experiment
\* was on display does not move it.
C8_OwnCursor ==
    [][(KeyPress("r") /\ plotter'.index # plotter.index) =>
          fig'.axes[1].source_index = nav.own[plotter'.index + 1]]_vars

\* C9 as stated: with a map panel the two panels' cursors are equal after
\* any keys, also when an experiment has no source points.
C9_PanelsInStep == show_map => fig.axes[1].source_index = fig.axes[2].source_index

\* C9: with a map panel and experiments that have source points, one per
\* source, the two panels' cursors are equal after any keys.
C9_PanelsInStepWithPoints ==
    (show_map /\ \A i \in 1..2 : plotter.experiments[i].none
                                  \/ ~plotter.experiments[i].sourcePoints.none)
        => fig.axes[1].source_index = fig.axes[2].source_index

C9_BothPaged ==
    /\ show_map /\ ~Cur.sourcePoints.none
    /\ last.key \in Forth /\ last.cursors[1] = last.cursors[2]
    /\ Cursor # Before
    /\ fig.axes[2].source_index = Cursor

\* C10: the frame stacks are never modified: every experiment holds the
\* samples it was supplied with.
C10_DataAsSupplied ==
    \A i \in 1..2 :
        plotter.experiments[i].none
        \/ plotter.experiments[i].data = supplied[i].data

\* a frame has been rendered, and rendered again as the first render left it
Redrawn == call.fn \in RenderFns /\ call.renders >= 2

\* C11: rendering a frame twice in a row draws what rendering it once draws
\* (the same trace values, mode and labels) and leaves the frame data as the
\* first render left them.
C11_RedrawIdempotent ==
    Redrawn => [ax |-> call.ax, X |-> call.X] = call.once

\* the drawing modes, read off the axes: one line with its two fills around
\* zero; a line with its two fills per trace, around the trace's own offset;
\* one colour-mapped grid and no line
SingleLine(ax) ==
    /\ Len(ax.artists) = 3
    /\ ax.artists[1].kind = "line" /\ ax.artists[1].y0 = 0
    /\ \A i \in 2..3 : ax.artists[i].kind = "fill" /\ ax.artists[i].y0 = 0

StackedLines(ax, n) ==
    /\ Len(ax.artists) = 3 * n
    /\ \A i \in 1..n :
          /\ ax.artists[3 * i - 2].kind = "line"
          /\ ax.artists[3 * i - 1].kind = "fill"
          /\ ax.artists[3 * i].kind = "fill"
          /\ \A j \in (3 * i - 2)..(3 * i) : ax.artists[j].y0 = i

Grid(ax) == Len(ax.artists) = 1 /\ ax.artists[1].kind = "mesh"

\* one tick label per trace, at the trace's offset
TraceTicks(ax, n) == ax.yticks = Some([i \in 1..n |-> i])

\* plotWiggles has drawn a frame
Wiggled == call.fn = "plotWiggles" /\ ~call.raised

\* C12: plotWiggles picks its drawing mode from the trace count N alone:
\* N = 1 a single filled line; 2..18 stacked lines with a tick label per
\* trace; 19..70 stacked lines without them; 71 and more a grid and no lines.
C12_ModeByCount ==
    Wiggled =>
        LET n == Len(call.given.tr) IN
        /\ n = 1 => SingleLine(call.ax) /\ call.ax.yticks.none
        /\ (2 <= n /\ n <= 18) =>
               StackedLines(call.ax, n) /\ TraceTicks(call.ax, n)
        /\ (19 <= n /\ n <= 70) =>
               StackedLines(call.ax, n) /\ call.ax.yticks.none
        /\ n >= 71 => Grid(call.ax) /\ call.ax.yticks.none

C12_GridPastSeventy ==
    Wiggled /\ Len(call.given.tr) = 71 /\ Grid(call.ax)

\* C13: a key that is not left, right, up or down ('r' and unrecognized keys
\* included) leaves the cursor of every panel as it was.
C13_OnlyPagingMoves ==
    (last.key # "" /\ last.key \notin Back \cup Forth)
        => Cursors(fig) = last.cursors

C13_SwitchedInPlace ==
    /\ last.key = "r" /\ plotter.index # last.index
    /\ Cursor > 0
    /\ Cursors(fig) = last.cursors

\* "%0.2f" of the coordinates passed to set_ylabel
TwoDecimals(v) ==
    IF v = 123 THEN "1.23" ELSE IF v = 456 THEN "4.56"
    ELSE IF v = -5 THEN "-0.05" ELSE IF v = 1000 THEN "10.00"
    ELSE IF v = 789 THEN "7.89" ELSE "?"

\* set_ylabel was called for a single trace with rows of two coordinates, no
\* amplitude unit and one of the four flags
SingleLabelled ==
    /\ call.fn = "set_ylabel" /\ call.N = 1
    /\ ~call.coordinates.none /\ Len(call.coordinates.val[1]) = 2
    /\ call.pp.au = ""
    /\ call.flag \in {"data", "impulse", "left", "right"}

\* C14: for one trace, 2D coordinates and no amplitude unit, set_ylabel
\* returns 'Amplitude [<Entity> <id> @ (<x> <xu>, <y> <yu>)]' with two
\* decimals when xu and yu are both given, and the same without the unit
\* suffixes when both are empty; <Entity> is Source for flag 'right' and
\* Receiver for 'data', 'impulse' and 'left'.
C14_SingleTraceLabel ==
    SingleLabelled =>
        LET who == (IF call.flag = "right" THEN "Source" ELSE "Receiver")
                   \o " " \o ToString(call.id_number)
            x == TwoDecimals(call.coordinates.val[1][1])
            y == TwoDecimals(call.coordinates.val[1][2])
        IN  /\ ~call.raised
            /\ (call.pp.xu # "" /\ call.pp.yu # "") =>
                  call.val = "Amplitude [" \o who \o " @ (" \o x \o " " \o
                             call.pp.xu \o ", " \o y \o " " \o call.pp.yu
                             \o ")]"
            /\ (call.pp.xu = "" /\ call.pp.yu = "") =>
                  call.val = "Amplitude [" \o who \o " @ (" \o x \o ", "
                             \o y \o ")]"

C14_ReceiverThree ==
    /\ SingleLabelled /\ call.flag = "data" /\ call.id_number = 3
    /\ call.val = "Amplitude [Receiver 3 @ (1.23 m, 4.56 m)]"

\* the defaults of the style configuration
IsDefault(d) ==
    /\ d.pltformat = "pdf" /\ d.view_mode = "light"
    /\ d.isolevel = <<7, 10>>
    /\ \A k \in {"xlabel", "ylabel", "zlabel", "xu", "yu", "zu",
                  "tu", "au", "fu"} : d[k] = ""
    /\ d.image_colormap = "magma" /\ d.wiggle_colormap = "grays"
    /\ d.colorbar = FALSE
    /\ d.vmin = <<0, 1>> /\ d.vmax = <<1, 1>> /\ d.pclip = <<1, 1>>
    /\ \A k \in {"invert_xaxis", "invert_yaxis", "invert_zaxis",
                  "show_scatterer"} : d[k] = FALSE
    /\ d.show_sources = TRUE /\ d.show_receivers = TRUE

C16_DisplayCurrent ==
    last.key \in Back \cup Forth \cup {"r"} => Shown(Cur)

\* plotMap has drawn a map for a cursor index, source coordinates given and
\* sources shown
MapWithSources ==
    /\ call.fn = "plotMap" /\ ~call.raised
    /\ (call.flag = "data" /\ call.pp.show_sources) \/ call.flag = "impulse"

\* the positions among the artists of the source markers of one colour
SourceMarks(ax, color) ==
    {i \in DOMAIN ax.artists :
        /\ ax.artists[i].kind = "points"
        /\ ax.artists[i].marker \in {"*", "."}
        /\ ax.artists[i].color = color}

\* the sources drawn in a colour, each as often as it is drawn
DrawnIn(ax, color, p) ==
    Cardinality({<<i, j>> \in SourceMarks(ax, color) \X (1..MaxNs) :
                    j \in DOMAIN ax.artists[i].pts
                    /\ ax.artists[i].pts[j] = p})

\* C18: with a cursor index, source coordinates and sources shown, plotMap
\* draws the source at row index once in the active colour and every other
\* row once in the inactive colour: none missing, none twice, and the active
\* source not among the inactive ones.
C18_OneActiveSource ==
    MapWithSources =>
        \A k \in DOMAIN call.sourcePoints :
            /\ DrawnIn(call.ax, call.ax.style.val.activesourcecolor,
                       call.sourcePoints[k])
                   = (IF k = call.index + 1 THEN 1 ELSE 0)
            /\ DrawnIn(call.ax, call.ax.style.val.inactivesourcecolor,
                       call.sourcePoints[k])
                   = (IF k = call.index + 1 THEN 0 ELSE 1)

C18_MiddleActive ==
    /\ MapWithSources /\ Len(call.sourcePoints) = MaxNs /\ call.index = 1
    /\ DrawnIn(call.ax, call.ax.style.val.activesourcecolor,
               call.sourcePoints[2]) = 1

\* a frame was rendered once
RenderedOnce == call.fn \in RenderFns /\ call.renders = 1

\* the values drawn for the single trace of a frame: the line of plotWiggles,
\* the stems of plotFreqVectors
DrawnTrace(ax) == ax.artists[1].y

\* a sample that a division by zero produced
Undefined(v) == "nan" \in DOMAIN v \/ "inf" \in DOMAIN v

\* C19: a single-trace frame is rendered, by plotWiggles and by
\* plotFreqVectors, without the division by the peak: no error, the trace
\* drawn with the values it came with and the frame left as it was, also
\* when the trace is all zero.
C19_SingleTraceUnscaled ==
    (RenderedOnce /\ Len(call.given.tr) = 1) =>
        /\ ~call.raised
        /\ call.X = call.given
        /\ DrawnTrace(call.ax) = call.given.tr[1]
        /\ \A v \in Samples(call.X) : ~Undefined(v)

C19_ZeroTraceDrawn ==
    /\ RenderedOnce /\ Len(call.given.tr) = 1 /\ call.fn = "plotWiggles"
    /\ Samples(call.given) = {FromInt(0)}
    /\ DrawnTrace(call.ax) = call.given.tr[1]

\* the scale factor of a frame is zero: for plotWiggles (up to 70 traces)
\* every trace is constant, for plotFreqVectors every sample is zero
ZeroScale ==
    IF call.fn = "plotWiggles"
    THEN \A n \in DOMAIN call.given.tr :
            Cardinality(Range(call.given.tr[n])) = 1
    ELSE Samples(call.given) = {FromInt(0)}

\* C20: a frame of several traces whose scale factor is zero is rendered
\* without a division and drawn unscaled, and no render divides by a zero
\* scale factor.
C20_ZeroScaleUnscaled ==
    (RenderedOnce /\ Len(call.given.tr) > 1) =>
        /\ \A v \in Samples(call.X) : ~Undefined(v)
        /\ ZeroScale =>
              /\ ~call.raised
              /\ call.X = call.given
              /\ DrawnFrame(call.ax) = Some(call.given)

C20_FlatStackDrawn ==
    /\ RenderedOnce /\ Len(call.given.tr) = 2 /\ call.fn = "plotWiggles"
    /\ ZeroScale /\ Samples(call.given) # {FromInt(0)}
    /\ DrawnFrame(call.ax) = Some(call.given)

\* C17: in the image viewer a right/up key sets the cursor to (c + 1) mod
\* Ntau and a left/down key to (c - 1) mod Ntau, and the image at the new
\* cursor is then rendered by image_viewer without error: the window shows
\* the image the cursor names.
C17_ImagePaged ==
    (fig.callbacks = ImageCallbacks /\ last.key \in Back \cup Forth) =>
        /\ Cursor = (Before + Dir(last.key)) % bound.val.Ntau
        /\ raised = {}
        /\ fig.canvas[1] = fig.axes[1]
        /\ fig.axes[1].artists # <<>>
        /\ fig.axes[1].artists[1].y
              = Clipped(fig.axes[1].volume[Cursor + 1], plotParams)

\* set_ylabel was called for a single trace with coordinates and one of the
\* four flags
SingleLocated ==
    /\ call.fn = "set_ylabel" /\ call.N = 1
    /\ ~call.coordinates.none
    /\ call.flag \in {"data", "impulse", "left", "right"}

\* a value followed by its unit, when the unit is given
Suffixed(value, unit) == IF unit # "" THEN value \o " " \o unit ELSE value

\* C21: for one trace with coordinates, set_ylabel shows each unit (au, xu,
\* yu, and zu for 3D coordinates) if and only if that unit string is not
\* empty, each on its own; the label always has the amplitude caption, the
\* entity with its id, and the coordinates.
C21_UnitsEachOnItsOwn ==
    SingleLocated =>
        LET c == call.coordinates.val[1]
            who == (IF call.flag = "right" THEN "Source" ELSE "Receiver")
                   \o " " \o ToString(call.id_number)
            amp == IF call.pp.au # "" THEN "Amplitude (" \o call.pp.au \o ") ["
                                      ELSE "Amplitude ["
            xy == Suffixed(TwoDecimals(c[1]), call.pp.xu) \o ", "
                  \o Suffixed(TwoDecimals(c[2]), call.pp.yu)
        IN  /\ ~call.raised
            /\ call.val = amp \o who \o " @ (" \o
                  (IF Len(c) = 3
                   THEN xy \o ", " \o Suffixed(TwoDecimals(c[3]), call.pp.zu)
                   ELSE xy) \o ")]"

\* wave_title was called with source coordinates
TitledAtSource == call.fn = "wave_title" /\ ~call.sourcePoints.none

\* the coordinates of a row, each with its unit or all without
Located(p, units) ==
    IF Len(p) = 2
    THEN Fmt2(p[1]) \o units[1] \o ", " \o Fmt2(p[2]) \o units[2]
    ELSE Fmt2(p[1]) \o units[1] \o ", " \o Fmt2(p[2]) \o units[2] \o ", "
         \o Fmt2(p[3]) \o units[3]

\* C22: wave_title returns a title without raising for the flags 'data' and
\* 'impulse', source coordinates of 2 or 3 dimensions and every combination
\* of empty and non-empty xu, yu, zu; the coordinates carry their units when
\* all the units of their dimensions are non-empty and none otherwise.
C22_TitleForEveryUnits ==
    TitledAtSource =>
        LET p == call.sourcePoints.val[call.index + 1]
            all == call.pp.xu # "" /\ call.pp.yu # ""
                   /\ (Len(p) = 3 => call.pp.zu # "")
            units == IF all THEN <<" " \o call.pp.xu, " " \o call.pp.yu,
                                   " " \o call.pp.zu>>
                            ELSE <<"", "", "">>
            head == IF call.flag = "data"
                    THEN "Data [Source " \o ToString(call.index + 1)
                    ELSE "Impulse Response [$\\bf{z}$"
        IN  /\ ~call.raised
            /\ call.val = head \o " @ (" \o Located(p, units) \o ")]"

\* C23: image_viewer, called with its declared arguments, completes and
\* sets a title on the axes for an image over a plane (Z is None) and for a
\* volume drawn as an isosurface (Z given), for alpha zero or not, with or
\* without tau: no path reads the title before it is assigned.
C23_ImageTitled ==
    call.fn = "plotImage" => ~call.raised /\ call.ax.title # ""

\* C24: paging and switching are independent: a left, right, up or down
\* key, and any key other than 'r', leaves plotter.index as it was.
C24_OnlyRSwitches ==
    (last.key # "" /\ last.key # "r") => plotter.index = last.index

C24_PagedOnReciprocal ==
    /\ last.key \in Back \cup Forth
    /\ last.index = 1 /\ plotter.index = 1
    /\ Cursor # Before

\* the flag and the complex part each panel of a singular-vector figure is
\* titled with
PanelFlag(a) ==
    IF bound.val.dtype = Some("cmplx_left") THEN "left"
    ELSE IF bound.val.dtype = Some("cmplx_right") THEN "right"
    ELSE IF a = 1 THEN "left" ELSE "right"

PanelPart(a) ==
    IF bound.val.dtype.none THEN None
    ELSE IF a = 1 THEN Some("real") ELSE Some("imag")

\* the depth of the volume of panel a
Depth(a) == Len(fig.axes[a].volume)

\* C25: in the singular-vector viewer a paging key moves the index of both
\* panels one step in the key's direction, each modulo the depth of its own
\* volume; with volumes of one depth K and one starting index the two
\* indices are always equal and in [0, K), and each title shows the vector
\* number index + 1.
C25_VectorsInStep ==
    fig.callbacks = VectorCallbacks =>
        /\ last.key \in Back \cup Forth =>
              \A a \in 1..2 :
                  /\ fig.axes[a].index
                        = (last.cursors[a] + Dir(last.key)) % Depth(a)
                  /\ fig.axes[a].title
                        = vector_title(PanelFlag(a), fig.axes[a].index + 1,
                                       PanelPart(a)).val
        /\ Depth(1) = Depth(2) =>
              /\ fig.axes[1].index = fig.axes[2].index
              /\ fig.axes[1].index \in 0..(Depth(1) - 1)

C25_BothWrappedBack ==
    /\ fig.callbacks = VectorCallbacks /\ last.key \in Back
    /\ Depth(1) = MaxNs /\ Depth(2) = MaxNs
    /\ last.cursors = <<0, 0>>
    /\ Cursors(fig) = <<MaxNs - 1, MaxNs - 1>>

\* the functions that render a page on axes they are given
Renderers == RenderFns \cup {"plotMap", "plotImage"}

\* what the last render of a call draws on fresh axes
OnFreshAxes ==
    IF call.fn \in RenderFns
    THEN RenderBy(call.fn, NewAxes(call.pp.view_mode), call.once.X, call.pp).ax
    ELSE IF call.fn = "plotMap"
    THEN plotMap(NewAxes(call.pp.view_mode), Some(call.index),
                 MapReceiverPoints(Len(call.sourcePoints[1])),
                 Some(call.sourcePoints), call.scatterer, call.flag,
                 call.pp).ax
    ELSE ImageOn(NewAxes(call.pp.view_mode), call.Dict, "X", "Y", call.Z,
                 call.tau, call.pp).ax

Marked(ax, markers) ==
    {i \in DOMAIN ax.artists : ax.artists[i].kind = "points"
                               /\ ax.artists[i].marker \in markers}

\* C27: plotMap honours the visibility toggles for every flag and
\* dimensionality: receivers are drawn only if show_receivers is on, sources
\* (active and inactive) only if show_sources is on, the scatterer only if
\* show_scatterer is on and a scatterer was supplied.
C27_TogglesHonoured ==
    (call.fn = "plotMap" /\ ~call.raised) =>
        /\ Marked(call.ax, {"v"}) # {} => call.pp.show_receivers
        /\ Marked(call.ax, {"*", "."}) # {} => call.pp.show_sources
        /\ Marked(call.ax, {"--"}) # {} =>
              call.pp.show_scatterer /\ ~call.scatterer.none

\* the figure is as Plotter.plot constructed it: no key pressed yet
Constructed == fig.callbacks = WaveCallbacks /\ last.key = ""

\* C28: on construction the cursor is len(sourceNumbers) // 2, which is in
\* [0, N) for every N >= 1; that frame is rendered, and with a map panel the
\* map has the cursor of the wiggle panel.
C28_StartsInTheMiddle ==
    Constructed =>
        /\ Cursor = Len(Cur.sourceNumbers) \div 2
        /\ Cursor \in 0..(N - 1)
        /\ Shown(Cur)
        /\ show_map => fig.axes[2].source_index = Cursor

C28_MiddleOfMost ==
    /\ Constructed /\ show_map /\ N = MaxNs
    /\ Cursors(fig) = <<MaxNs \div 2, MaxNs \div 2>>

\* the keys of a list that are not in S, in the order of the list
Others(keys, S) == SelectSeq(keys, LAMBDA key : key \notin S)

\* C29: after remove_keymap_conflicts(S) no keymap list holds a key of S,
\* the other keys are kept in their order, a setting that is no keymap is
\* as it was, and a second call with the same S changes nothing.
C29_KeysFreed ==
    call.fn = "remove_keymap_conflicts" =>
        /\ \A prop \in DOMAIN call.rcParams :
              IF IsKeymap(prop)
              THEN /\ Range(call.rcParams[prop]) \cap call.new_keys_set = {}
                   /\ Others(call.rcParams[prop], call.new_keys_set)
                        = Others(call.before[prop], call.new_keys_set)
              ELSE call.rcParams[prop] = call.before[prop]
        /\ call.calls >= 2 => call.rcParams = call.once
====
